---- MODULE Spec2Model ----
(***************************************************************************)
(* LocalXpose GitHub action: the retry engine (retry.ts), the tunnel       *)
(* lifecycle (tunnel.ts, tunnel-verify.ts), the action entry point         *)
(* (index.ts, main.ts) and the post-action cleanup (cleanup.ts).           *)
(*                                                                         *)
(* Specifications over the same variables:                                 *)
(*   SpecRetry    retry() called with arbitrary options and an arbitrary   *)
(*                operation;                                               *)
(*   SpecRetryLive  the same, with every call of retry() returning;        *)
(*   SpecBackoff  retryWithBackoff() with arbitrary initial delays;        *)
(*   SpecSpawn    createTunnel() with arbitrary options, up to the spawn;  *)
(*   SpecInstances  two createTunnel() invocations side by side;           *)
(*   SpecComments   two updatePRComment() calls on one pull request;       *)
(*   SpecExtract  waitForTunnel() on arbitrary log contents;               *)
(*   SpecProbes   waitForTunnel(), or cleanup(), on a process the action   *)
(*                may not be permitted to signal;                          *)
(*   SpecCleanup  cleanup() started from an arbitrary persisted state;     *)
(*   Spec         one job: the main invocation of the entry point          *)
(*                (run, createTunnel) followed by the post invocation      *)
(*                (cleanup).                                               *)
(***************************************************************************)
EXTENDS Integers, Sequences, FiniteSets, TLC

VARIABLES
    \* ---- retry(): retry.ts
    rpc,          \* position inside retry(): idle, call, catch, delay, returned, thrown
    site,         \* who called retry(): generic, wft (waitForTunnel), verify
    opts,         \* the destructured RetryOptions: timeout, delay, maxRetries, silent
    startTime,    \* const startTime = timeProvider()
    now,          \* what timeProvider() returns when read
    attempts,     \* let attempts
    lastError,    \* let lastError (the message of the error)
    retryResult,  \* the value retry() returned
    retryError,   \* the RetryError retry() threw: reason and lastError
    fnCalls,      \* number of invocations of fn
    delayCalls,   \* number of invocations of delayProvider
    debugLog,     \* core.debug lines written by retry(): failures and successes
    delayArgs,    \* the ms each call of the delay function received, in order
    currentDelay, \* let currentDelay of retryWithBackoff (0 outside it)
    fnOutcome,    \* what the latest call of fn did: its value or its error message
    clockByDelay, \* the clock has moved only inside delay calls, by the ms given
    \* ---- the tunnel process and the files (the environment)
    procAlive,    \* the spawned tunnel process exists
    procPerm,     \* the action may signal the process (no EPERM)
    logFile,      \* content of the log file, a sequence of characters (NoFile: no file)
    \* ---- cleanup(): cleanup.ts
    cpc,          \* position inside cleanup()
    stateThrows,  \* core.getState throws (the state store fails)
    unlinkFails,  \* fs.unlink of the log file rejects
    clPid,        \* tunnelPid as read by cleanup
    clLogPath,    \* tunnelLogPath as read by cleanup
    killCalls,    \* the process.kill calls of cleanup: <<signal, delivered>>
    killTimes,    \* what the clock read at each process.kill call of cleanup
    clLog,        \* the core.info / core.warning / core.debug lines of cleanup
    unlinks,      \* number of fs.unlink calls
    clResult,     \* how cleanup() ended: pending, resolved, rejected
    \* ---- the entry point, run() and createTunnel(): index.ts, main.ts, tunnel.ts
    inv,          \* which invocation of the entry point runs: main, post
    pc,           \* position inside the invocation
    saved,        \* the job's state store: isPost, tunnelPid, tunnelLogPath
    outputs,      \* the action outputs: status, url, hostname
    failedMsg,    \* the message given to core.setFailed ("" when not called)
    exitCode,     \* process.exitCode of the invocation
    exitStatus,   \* the status the invocation's process exited with (-1: running)
    prComment,    \* run() found the pr-comment input set on a pull_request event
    options,      \* the TunnelOptions run() builds for createTunnel
    childPid,     \* tunnelProcess.pid (0: spawn gave none)
    sink,         \* logStream: none, open, closed
    handlers,     \* the 'data' listeners on the child's stdout/stderr: none, capture, debug
    tickQueued,   \* the process.nextTick callback of createTunnel is queued
    unrefd,       \* tunnelProcess.unref() was called
    logReads,     \* number of fs.readFile calls of waitForTunnel
    sigProbes,    \* number of signal-0 probes of waitForTunnel
    absentSeen,   \* a signal-0 probe of waitForTunnel reported the process absent
    wftState,     \* waitForTunnel: no (not finished), ok, failed
    httpProbes,   \* number of HEAD requests of verifyTunnelReachability
    verifyState,  \* waitForTunnelReady: no (not finished), ok, failed
    returned,     \* createTunnel returned its TunnelResult
    tunnelInfo,   \* const tunnelInfo of createTunnel: hostname and url
    lastProbe,    \* the latest probe of verifyTunnelReachability's fn: the HEAD
                  \* status (0: no response) and the GET requests that followed
    spawned,      \* what createTunnel gave spawn and logged: args, env, cmdLine
    isReachable,  \* what verifyTunnelReachability returned: none, true, false
    warnings,     \* the core.warning lines of the main invocation
    lateOutput,   \* where the child's output handled after logStream.close went:
                  \* none (none was handled), debug (core.debug only), sink
    dropped,      \* the child emitted output while no 'data' listener was attached
    \* ---- createTunnel invocations that run side by side: tunnel.ts
    instPc,       \* position of each invocation: start, spawned, written, done
    instPath,     \* const logPath of each invocation
    logFiles,     \* content of the file at each log path (NoFile: no file)
    instResult,   \* the hostname each invocation extracted (<<>>: none)
    \* ---- updatePRComment calls on one pull request: pr-comment.ts
    prPc,         \* position of each call: start, listed, done
    prPending,    \* what each call made of its list response: the comment to write
                  \* to (0: create one), the body to write, its own entry
    prComments    \* the comments of the pull request, in the order created

retryVars == <<rpc, site, opts, startTime, now, attempts, lastError, retryResult,
               retryError, fnCalls, delayCalls, debugLog, delayArgs, currentDelay,
               fnOutcome, clockByDelay>>
envVars == <<procAlive, procPerm, logFile>>
cleanupVars == <<cpc, stateThrows, unlinkFails, clPid, clLogPath, killCalls, killTimes,
                 clLog, unlinks, clResult>>
tunnelVars == <<childPid, sink, handlers, tickQueued, unrefd, logReads, sigProbes,
                absentSeen, wftState, httpProbes, verifyState, returned, tunnelInfo,
                lastProbe, spawned, isReachable, warnings, lateOutput, dropped>>
actionVars == <<inv, pc, saved, outputs, failedMsg, exitCode, exitStatus, prComment,
                options>>
instVars == <<instPc, instPath, logFiles, instResult>>
prVars == <<prPc, prPending, prComments>>
vars == <<retryVars, envVars, cleanupVars, tunnelVars, actionVars, instVars, prVars>>

(***************************************************************************)
(* Bounds of the model (inputs of SpecRetry and the cap on its loop).      *)
(***************************************************************************)
MaxTimeout == 5     \* SpecRetry: timeout ranges over -1 .. MaxTimeout
MaxDelay == 2       \* SpecRetry: delay ranges over 0 .. MaxDelay
MaxRetriesBound == 3  \* SpecRetry: maxRetries ranges over 0 .. MaxRetriesBound, or undefined
MaxOpTime == 1      \* SpecRetry: the clock advances by 0 .. MaxOpTime during one fn call
MaxAttempts == 6    \* SpecRetry: fn is not called more often than this
MaxBackStep == 1    \* SpecRetry: the clock is set back by at most this during one fn call
MaxLogLen == 14     \* the child's output is captured while the log is no longer than this
MaxTokens == 4      \* SpecExtract: the initial log content has at most this many pieces
MaxClock == 2       \* SpecInstances: Date.now() ranges over 0 .. MaxClock
MaxWaits == 3       \* SpecComments: the clock moves at most this many times

\* An optional number (maxRetries?: number): <<>> when undefined, <<n>> when set
Undefined == <<>>
Some(n) == <<n>>

(***************************************************************************)
(* retry.ts                                                                *)
(***************************************************************************)

\* retry.ts:38-45, the defaults of the destructured options
DefaultTimeout == 30000
DefaultDelay == 500

RetryOptions(t, d, m, s) == [timeout |-> t, delay |-> d, maxRetries |-> m, silent |-> s]

shouldRetryByTimeoutInclusive(elapsedTime, timeout) == elapsedTime <= timeout

shouldRetryByTimeoutAlways(elapsedTime, timeout) == TRUE

\* retry.ts:65
shouldRetryByTimeout(elapsedTime, timeout) == elapsedTime < timeout

shouldRetryByCountOffByOne(n, maxRetries) ==
    maxRetries = Undefined \/ n <= maxRetries[1]

\* retry.ts:66-67
shouldRetryByCount(n, maxRetries) ==
    maxRetries = Undefined \/ n < maxRetries[1]

\* retry.ts:71-73, the reason of the RetryError: `timeout after ${timeout}ms`
\* ("timeout" with the number reasonArg gives) or `${maxRetries} retries`
reason(byTimeout) == IF ~byTimeout THEN "timeout" ELSE "retries"

\* retry.ts:72-73, the number interpolated into the reason
reasonArg(byTimeout, timeout, maxRetries) ==
    IF ~byTimeout THEN timeout ELSE maxRetries[1]

RetryErrorSwapsReason(byTimeout, timeout, maxRetries, error) ==
    [reason |-> reason(~byTimeout),
     arg |-> IF byTimeout THEN timeout ELSE 0,
     cause |-> error,
     lastError |-> error]

\* retry.ts:75-78: new RetryError(`Failed after ${reason}: ${lastError.message}`,
\* lastError); cause is the message interpolated after the colon
RetryError(byTimeout, timeout, maxRetries, error) ==
    [reason |-> reason(byTimeout),
     arg |-> reasonArg(byTimeout, timeout, maxRetries),
     cause |-> error,
     lastError |-> error]

NoError == [reason |-> "none", arg |-> 0, cause |-> "none", lastError |-> "none"]

\* retry.ts:47-49: entering retry() from call site s with options o
RetryEnter(s, o) ==
    /\ rpc' = "call"
    /\ site' = s
    /\ opts' = o
    /\ startTime' = now
    /\ attempts' = 0
    /\ lastError' = "none"
    /\ retryResult' = "none"
    /\ retryError' = NoError
    /\ fnCalls' = 0
    /\ delayCalls' = 0
    /\ debugLog' = <<>>
    /\ delayArgs' = <<>>
    /\ currentDelay' = 0
    /\ fnOutcome' = "none"
    /\ clockByDelay' = FALSE   \* Date.now and timers, not a clock the delays drive

\* retry.ts:59, 75-78: retry() has returned or thrown and its caller has taken the
\* outcome; the locals of the invocation are gone
RetryLeave ==
    /\ rpc' = "idle"
    /\ site' = "none"
    /\ opts' = RetryOptions(DefaultTimeout, DefaultDelay, Undefined, FALSE)
    /\ startTime' = 0
    /\ attempts' = 0
    /\ lastError' = "none"
    /\ retryResult' = "none"
    /\ retryError' = NoError
    /\ fnCalls' = 0
    /\ delayCalls' = 0
    /\ debugLog' = <<>>
    /\ delayArgs' = <<>>
    /\ currentDelay' = 0
    /\ fnOutcome' = "none"
    /\ clockByDelay' = TRUE

FnSucceedsAlwaysLogs(v) ==
    /\ attempts' = attempts + 1
    /\ fnCalls' = fnCalls + 1
    /\ retryResult' = v
    /\ rpc' = "returned"
    /\ debugLog' = IF ~opts.silent THEN Append(debugLog, "succeeded") ELSE debugLog
    /\ fnOutcome' = v
    /\ UNCHANGED <<site, opts, startTime, lastError, retryError, delayCalls, delayArgs,
                   currentDelay>>

\* retry.ts:52-59: fn resolved with value v on this iteration
FnSucceeds(v) ==
    /\ attempts' = attempts + 1
    /\ fnCalls' = fnCalls + 1
    /\ retryResult' = v
    /\ rpc' = "returned"
    /\ debugLog' = IF attempts + 1 > 1 /\ ~opts.silent
                   THEN Append(debugLog, "succeeded")
                   ELSE debugLog
    /\ fnOutcome' = v
    /\ UNCHANGED <<site, opts, startTime, lastError, retryError, delayCalls, delayArgs,
                   currentDelay>>

FnFailsKeepsFirst(e) ==
    /\ attempts' = attempts + 1
    /\ fnCalls' = fnCalls + 1
    /\ lastError' = IF lastError = "none" THEN e ELSE lastError
    /\ rpc' = "catch"
    /\ fnOutcome' = e
    /\ UNCHANGED <<site, opts, startTime, retryResult, retryError, delayCalls, debugLog,
                   delayArgs, currentDelay>>

\* retry.ts:52-61: fn threw an error with message e on this iteration
FnFails(e) ==
    /\ attempts' = attempts + 1
    /\ fnCalls' = fnCalls + 1
    /\ lastError' = e
    /\ rpc' = "catch"
    /\ fnOutcome' = e
    /\ UNCHANGED <<site, opts, startTime, retryResult, retryError, delayCalls, debugLog,
                   delayArgs, currentDelay>>

\* retry.ts:63-83: the catch block, after lastError is set
RetryCatch ==
    /\ rpc = "catch"
    /\ LET elapsedTime == now - startTime
           byTimeout == shouldRetryByTimeout(elapsedTime, opts.timeout)
           byCount == shouldRetryByCount(attempts, opts.maxRetries)
       IN IF ~byTimeout \/ ~byCount
          THEN /\ retryError' = RetryError(byTimeout, opts.timeout, opts.maxRetries,
                                            lastError)
               /\ rpc' = "thrown"
               /\ debugLog' = debugLog
          ELSE /\ retryError' = retryError
               /\ rpc' = "delay"
               /\ debugLog' = IF ~opts.silent THEN Append(debugLog, "failed") ELSE debugLog
    /\ UNCHANGED <<site, opts, startTime, now, attempts, lastError, retryResult,
                   fnCalls, delayCalls, delayArgs, currentDelay, fnOutcome, clockByDelay>>
    /\ UNCHANGED <<envVars, cleanupVars, tunnelVars, actionVars>>
    /\ UNCHANGED <<instVars, prVars>>

\* How far the clock moves during delayProvider(ms): a timer (retry.ts:43) takes
\* the delay; a delayProvider handed in by the caller may also leave the clock
\* alone (retry.test.ts:28-29)
delayAdvance(s, ms) == IF s \in {"generic", "backoff"} THEN {0, ms} ELSE {ms}

Min(a, b) == IF a < b THEN a ELSE b

BackoffDefaultDelay == 500   \* retry.ts:101
BackoffCap == 30000          \* retry.ts:108

\* retry.ts:101: const initialDelay = options.delay || 500 (0 is falsy)
initialDelay(delay) == IF delay = 0 THEN BackoffDefaultDelay ELSE delay

\* retry.ts:108: currentDelay = Math.min(currentDelay * 2, 30000)
nextDelay(current) == Min(current * 2, BackoffCap)

actualDelayDoubled(s, current, ms) == IF s = "backoff" THEN current ELSE ms * 2

\* The ms the underlying delay function receives: retry() passes its delay
\* (retry.ts:86); the delayProvider of retryWithBackoff ignores that and passes
\* actualDelay = currentDelay (retry.ts:106-113)
actualDelay(s, current, ms) == IF s = "backoff" THEN current ELSE ms

\* retry.ts:86: await delayProvider(delay), with retry.ts:106-114 when the
\* delayProvider is the one of retryWithBackoff
RetryDelay ==
    /\ rpc = "delay"
    /\ delayCalls' = delayCalls + 1
    /\ delayArgs' = Append(delayArgs, actualDelay(site, currentDelay, opts.delay))
    /\ currentDelay' = IF site = "backoff" THEN nextDelay(currentDelay) ELSE currentDelay
    /\ \E t \in delayAdvance(site, actualDelay(site, currentDelay, opts.delay)) :
          /\ now' = now + t
          /\ clockByDelay' = (clockByDelay
                                /\ t = actualDelay(site, currentDelay, opts.delay))
    /\ rpc' = "call"
    /\ UNCHANGED <<site, opts, startTime, attempts, lastError, retryResult, retryError,
                   fnCalls, debugLog, fnOutcome>>
    /\ UNCHANGED <<envVars, cleanupVars, tunnelVars, actionVars>>
    /\ UNCHANGED <<instVars, prVars>>
(***************************************************************************)
(* The tunnel process, as cleanup() and waitForTunnel() see it             *)
(***************************************************************************)

\* tunnelProcess.pid of the spawned child (the value the tests use)
ChildPid == 12345
\* What parseInt gives for a text that does not start with a number
NaN == -1

\* The persisted tunnelPid texts: none saved, not a number, the child's pid
NoPid == ""
BadPid == "invalid"
ThePid == "12345"

\* tunnel.pid.toString() in run()
toString(n) == IF n = ChildPid THEN ThePid ELSE "NaN"

\* parseInt(tunnelPid, 10) in cleanup()
parseInt(text) == IF text = ThePid THEN ChildPid ELSE NaN

killDeniedIsAlive(pid) ==
    IF pid = NaN THEN "ERR_INVALID_ARG"
    ELSE IF ~procAlive THEN "ESRCH"
    ELSE "ok"

\* process.kill(pid, signal): "ok" when the signal is delivered, else the error
\* thrown (cleanup.ts:23-45, tunnel.ts:161)
kill(pid) ==
    IF pid = NaN THEN "ERR_INVALID_ARG"
    ELSE IF ~procAlive THEN "ESRCH"
    ELSE IF ~procPerm THEN "EPERM"
    ELSE "ok"

\* The log file does not exist (fs.readFile and fs.unlink reject with ENOENT);
\* a content is a sequence of one-character strings
NoFile == <<"ENOENT">>

\* The tunnel process exits on its own (at any moment, whatever it was sent)
ProcExits ==
    /\ procAlive
    /\ procAlive' = FALSE
    /\ UNCHANGED <<procPerm, logFile>>
    /\ UNCHANGED <<retryVars, cleanupVars, tunnelVars, actionVars>>
    /\ UNCHANGED <<instVars, prVars>>

(***************************************************************************)
(* cleanup.ts                                                              *)
(***************************************************************************)

DwellAfterSigint == 2000    \* cleanup.ts:31
DwellAfterSigterm == 1000   \* cleanup.ts:39

MsgRunning == "Running LocalXpose cleanup..."
MsgStopping == "Stopping tunnel process"
MsgSentSigint == "Sent SIGINT to tunnel process"
MsgSentSigterm == "Sent SIGTERM to tunnel process"
MsgForceKill == "Had to force kill tunnel process"
MsgAfterSigterm == "Tunnel process terminated after SIGTERM"
MsgGraceful == "Tunnel process terminated gracefully"
MsgAlreadyStopped == "Tunnel process already stopped"
MsgCleanedLog == "Cleaned up log file"
MsgUnlinkFailed == "Failed to clean up log file"
MsgCompleted == "LocalXpose cleanup completed"
MsgCleanupError == "Cleanup error"

OuterCatchRethrows(log) ==
    /\ clLog' = log
    /\ clResult' = "rejected"
    /\ cpc' = "done"

\* cleanup.ts:73-78: the outermost catch turns the error into a warning
OuterCatch(log) ==
    /\ clLog' = Append(log, MsgCleanupError)
    /\ clResult' = "resolved"
    /\ cpc' = "done"

\* A process.kill call of cleanup with its outcome, appended to the calls made
Called(signal, outcome) == Append(killCalls, <<signal, outcome = "ok">>)

\* cleanup.ts:9-20: read the saved state
CleanupStart ==
    /\ cpc = "start"
    /\ IF stateThrows
       THEN /\ OuterCatch(Append(clLog, MsgRunning))
            /\ UNCHANGED <<clPid, clLogPath>>
       ELSE /\ clPid' = saved.tunnelPid
            /\ clLogPath' = saved.tunnelLogPath
            /\ clResult' = clResult
            /\ IF saved.tunnelPid # NoPid
               THEN /\ clLog' = clLog \o <<MsgRunning, MsgStopping>>
                    /\ cpc' = "probe1"
               ELSE /\ clLog' = Append(clLog, MsgRunning)
                    /\ cpc' = "unlink"
    /\ UNCHANGED <<stateThrows, unlinkFails, killCalls, killTimes, unlinks>>
    /\ UNCHANGED <<retryVars, envVars, tunnelVars, actionVars>>
    /\ UNCHANGED <<instVars, prVars>>

\* One process.kill call of cleanup at position `at`: on delivery go to `next`
\* (logging okMsg when there is one), on an error log failMsg (the catch block
\* that encloses the call) and go to the log cleanup.
KillStep(at, signal, next, okMsg, failMsg) ==
    /\ cpc = at
    /\ LET outcome == kill(parseInt(clPid))
       IN /\ killCalls' = Called(signal, outcome)
          /\ killTimes' = Append(killTimes, now)
          /\ IF outcome = "ok"
             THEN /\ cpc' = next
                  /\ clLog' = IF okMsg = "" THEN clLog ELSE Append(clLog, okMsg)
                  /\ procAlive' = IF signal = "SIGKILL" THEN FALSE ELSE procAlive
             ELSE /\ cpc' = "unlink"
                  /\ clLog' = Append(clLog, failMsg)
                  /\ procAlive' = procAlive
    /\ UNCHANGED <<stateThrows, unlinkFails, clPid, clLogPath, unlinks, clResult>>
    /\ UNCHANGED <<procPerm, logFile>>
    /\ UNCHANGED <<retryVars, tunnelVars, actionVars>>
    /\ UNCHANGED <<instVars, prVars>>

CleanupProbe1Omitted ==
    KillStep("probe1", "SIGINT", "dwell1", MsgSentSigint, MsgAlreadyStopped)

\* cleanup.ts:23 (catch at 56-59)
CleanupProbe1 == KillStep("probe1", "0", "sigint", "", MsgAlreadyStopped)

\* cleanup.ts:27-28 (catch at 56-59)
CleanupSigint == KillStep("sigint", "SIGINT", "dwell1", MsgSentSigint, MsgAlreadyStopped)

\* A dwell timer of cleanup fires
Dwell(at, ms, next) ==
    /\ cpc = at
    /\ cpc' = next
    /\ now' = now + ms
    /\ UNCHANGED <<stateThrows, unlinkFails, clPid, clLogPath, killCalls, killTimes, clLog,
                   unlinks, clResult>>
    /\ UNCHANGED <<rpc, site, opts, startTime, attempts, lastError, retryResult,
                   retryError, fnCalls, delayCalls, debugLog, delayArgs, currentDelay,
                   fnOutcome, clockByDelay>>
    /\ UNCHANGED <<envVars, tunnelVars, actionVars>>
    /\ UNCHANGED <<instVars, prVars>>

CleanupDwell1Short == Dwell("dwell1", DwellAfterSigterm, "probe2")

\* cleanup.ts:31
CleanupDwell1 == Dwell("dwell1", DwellAfterSigint, "probe2")

CleanupProbe2SkipsSigterm ==
    KillStep("probe2", "0", "sigkill", "", MsgGraceful)

CleanupProbe2OuterCatch ==
    KillStep("probe2", "0", "sigterm", "", MsgAlreadyStopped)

\* cleanup.ts:35 (catch at 52-55)
CleanupProbe2 == KillStep("probe2", "0", "sigterm", "", MsgGraceful)

\* cleanup.ts:37-38 (catch at 52-55)
CleanupSigterm == KillStep("sigterm", "SIGTERM", "dwell2", MsgSentSigterm, MsgGraceful)

\* cleanup.ts:39
CleanupDwell2 == Dwell("dwell2", DwellAfterSigterm, "probe3")

\* cleanup.ts:43 (catch at 49-51)
CleanupProbe3 == KillStep("probe3", "0", "sigkill", "", MsgAfterSigterm)

CleanupSigkillThenProbe ==
    KillStep("sigkill", "SIGKILL", "probe3", MsgForceKill, MsgAfterSigterm)

CleanupSigkillWarnsAlways ==
    KillStep("sigkill", "SIGKILL", "unlink", MsgForceKill, MsgForceKill)

\* cleanup.ts:45-48 (catch at 49-51)
CleanupSigkill == KillStep("sigkill", "SIGKILL", "unlink", MsgForceKill, MsgAfterSigterm)

\* fs.unlink(path) rejects: the file is not there, or the deletion fails otherwise
unlinkRejects == logFile = NoFile \/ unlinkFails

CleanupUnlinkUncaught ==
    /\ cpc = "unlink"
    /\ IF clLogPath # ""
       THEN /\ unlinks' = unlinks + 1
            /\ logFile' = IF unlinkRejects THEN logFile ELSE NoFile
            /\ IF unlinkRejects
               THEN OuterCatch(clLog)
               ELSE /\ clLog' = clLog \o <<MsgCleanedLog, MsgCompleted>>
                    /\ clResult' = "resolved"
                    /\ cpc' = "done"
       ELSE /\ unlinks' = unlinks
            /\ logFile' = logFile
            /\ clLog' = Append(clLog, MsgCompleted)
            /\ clResult' = "resolved"
            /\ cpc' = "done"
    /\ UNCHANGED <<stateThrows, unlinkFails, clPid, clLogPath, killCalls, killTimes>>
    /\ UNCHANGED <<procAlive, procPerm>>
    /\ UNCHANGED <<retryVars, tunnelVars, actionVars>>
    /\ UNCHANGED <<instVars, prVars>>

\* cleanup.ts:62-72: delete the log file, then report completion
CleanupUnlink ==
    /\ cpc = "unlink"
    /\ IF clLogPath # ""
       THEN /\ unlinks' = unlinks + 1
            /\ logFile' = IF unlinkRejects THEN logFile ELSE NoFile
            /\ clLog' = clLog \o <<IF unlinkRejects THEN MsgUnlinkFailed ELSE MsgCleanedLog,
                                   MsgCompleted>>
       ELSE /\ unlinks' = unlinks
            /\ logFile' = logFile
            /\ clLog' = Append(clLog, MsgCompleted)
    /\ clResult' = "resolved"
    /\ cpc' = "done"
    /\ UNCHANGED <<stateThrows, unlinkFails, clPid, clLogPath, killCalls, killTimes>>
    /\ UNCHANGED <<procAlive, procPerm>>
    /\ UNCHANGED <<retryVars, tunnelVars, actionVars>>
    /\ UNCHANGED <<instVars, prVars>>

cleanup ==
    \/ CleanupStart
    \/ CleanupProbe1
    \/ CleanupSigint
    \/ CleanupDwell1
    \/ CleanupProbe2
    \/ CleanupSigterm
    \/ CleanupDwell2
    \/ CleanupProbe3
    \/ CleanupSigkill
    \/ CleanupUnlink
(***************************************************************************)
(* The parts of the state a specification does not use, at rest            *)
(***************************************************************************)

LogPath == "/tmp/tunnel-<Date.now()>.log"

\* What the child writes, in chunks: a line without an address, and the line
\* with the address, as in '(http, us) msy1xmzeub.loclx.io => [running]'
NoiseChunk == <<"l", "o", "c", "l", "x", ".", "i", "o", ":", " ", "a", "b", "1", " ">>
HostChunk == <<" ", "a", "1", ".", "l", "o", "c", "l", "x", ".", "i", "o", " ">>

\* tunnelInfo before waitForTunnel returned; lastProbe outside the fn, and for a
\* request that got no response
NoTunnelInfo == [hostname |-> <<>>, url |-> <<>>]
NoProbe == [status |-> 0, gets |-> 0]

\* tunnel.ts:8-14: TunnelOptions
TunnelOptions(type, port, region, subdomain, token) ==
    [type |-> type, port |-> port, region |-> region, subdomain |-> subdomain,
     token |-> token]

\* main.ts (index.test.ts:117-145): the options of a run with port 3000, a token
\* and the defaults of the other inputs
DefaultOptions == TunnelOptions("http", 3000, "us", "", "tok1")

\* Before createTunnel called spawn
NoSpawn == [args |-> <<>>, env |-> "", cmdLine |-> <<>>]

RetryIdle ==
    /\ rpc = "idle"
    /\ site = "none"
    /\ opts = RetryOptions(DefaultTimeout, DefaultDelay, Undefined, FALSE)
    /\ startTime = 0
    /\ now = 0
    /\ attempts = 0
    /\ lastError = "none"
    /\ retryResult = "none"
    /\ retryError = NoError
    /\ fnCalls = 0
    /\ delayCalls = 0
    /\ debugLog = <<>>
    /\ delayArgs = <<>>
    /\ currentDelay = 0
    /\ fnOutcome = "none"
    /\ clockByDelay = TRUE

CleanupIdle ==
    /\ clPid = NoPid
    /\ clLogPath = ""
    /\ killCalls = <<>>
    /\ killTimes = <<>>
    /\ clLog = <<>>
    /\ unlinks = 0
    /\ clResult = "pending"

TunnelIdle ==
    /\ childPid = 0
    /\ sink = "none"
    /\ handlers = "none"
    /\ tickQueued = FALSE
    /\ unrefd = FALSE
    /\ logReads = 0
    /\ sigProbes = 0
    /\ absentSeen = FALSE
    /\ wftState = "no"
    /\ httpProbes = 0
    /\ verifyState = "no"
    /\ returned = FALSE
    /\ tunnelInfo = NoTunnelInfo
    /\ lastProbe = NoProbe
    /\ spawned = NoSpawn
    /\ isReachable = "none"
    /\ warnings = <<>>
    /\ lateOutput = "none"
    /\ dropped = FALSE

NoOutputs == [status |-> "", url |-> <<>>, hostname |-> <<>>]

\* The createTunnel invocations that run side by side
Instances == {1, 2}

\* tunnel.ts:33-36: path.join(process.env.RUNNER_TEMP || '/tmp',
\* `tunnel-${Date.now()}.log`) when Date.now() gives t
logPathAt(t) == <<"/tmp/tunnel-", t, ".log">>
LogPaths == {logPathAt(t) : t \in 0..MaxClock}
NoPath == <<>>

InstIdle ==
    /\ instPc = [i \in Instances |-> "start"]
    /\ instPath = [i \in Instances |-> NoPath]
    /\ logFiles = [p \in LogPaths |-> NoFile]
    /\ instResult = [i \in Instances |-> <<>>]

\* No updatePRComment call has started; the pull request has no comment
NoPending == [id |-> 0, body |-> <<>>, entry |-> <<>>]
PrIdle ==
    /\ prPc = [i \in Instances |-> "start"]
    /\ prPending = [i \in Instances |-> NoPending]
    /\ prComments = <<>>

(***************************************************************************)
(* SpecRetry: retry(fn, options) for arbitrary options and an arbitrary fn *)
(***************************************************************************)

\* What timeProvider() may have moved by when fn settles: the time fn took, or,
\* for a clock that is set back meanwhile (Date.now is the wall clock, and any
\* timeProvider may be handed in), a step backwards
opAdvance == (0 - MaxBackStep)..MaxOpTime

\* One call of the caller's fn: the clock moves by t, then fn resolves or throws
GenericCall ==
    /\ rpc = "call"
    /\ site \in {"generic", "backoff"}
    /\ fnCalls < MaxAttempts
    /\ \E t \in opAdvance :
          /\ now' = now + t
          /\ clockByDelay' = (clockByDelay /\ t = 0)
          /\ \E r \in {"success", "fail 1", "fail 2"} :
                IF r = "success" THEN FnSucceeds(r) ELSE FnFails(r)
    /\ UNCHANGED <<envVars, cleanupVars, tunnelVars, actionVars>>
    /\ UNCHANGED <<instVars, prVars>>

InitRetry ==
    /\ rpc = "call"
    /\ site = "generic"
    /\ opts \in {RetryOptions(t, d, m, s) :
                    t \in -1..MaxTimeout, d \in 0..MaxDelay,
                    m \in {Undefined} \cup {Some(n) : n \in 0..MaxRetriesBound},
                    s \in BOOLEAN}
    /\ startTime = 0
    /\ now = 0
    /\ attempts = 0
    /\ lastError = "none"
    /\ retryResult = "none"
    /\ retryError = NoError
    /\ fnCalls = 0
    /\ delayCalls = 0
    /\ debugLog = <<>>
    /\ delayArgs = <<>>
    /\ currentDelay = 0
    /\ fnOutcome = "none"
    /\ clockByDelay = TRUE
    /\ procAlive = FALSE /\ procPerm = TRUE /\ logFile = NoFile
    /\ cpc = "idle" /\ stateThrows = FALSE /\ unlinkFails = FALSE /\ CleanupIdle
    /\ TunnelIdle
    /\ inv = "none" /\ pc = "idle"
    /\ saved = [isPost |-> "", tunnelPid |-> NoPid, tunnelLogPath |-> ""]
    /\ outputs = NoOutputs /\ failedMsg = "" /\ exitCode = 0 /\ exitStatus = -1
    /\ prComment = FALSE
    /\ options = DefaultOptions
    /\ InstIdle
    /\ PrIdle

NextRetry ==
    \/ GenericCall
    \/ RetryCatch
    \/ RetryDelay

SpecRetry == InitRetry /\ [][NextRetry]_vars

\* retry.ts:51-87: the loop of retry() goes on: a call of fn settles, the catch
\* block runs once fn has thrown, and a delay call returns
SpecRetryLive ==
    /\ InitRetry
    /\ [][NextRetry]_vars
    /\ WF_vars(GenericCall)
    /\ WF_vars(RetryCatch)
    /\ WF_vars(RetryDelay)

(***************************************************************************)
(* SpecBackoff: retryWithBackoff(fn, options)                              *)
(***************************************************************************)

\* The initial delays and the timeouts retryWithBackoff is called with
BackoffDelays == {0, 100, 10000, 40000}
BackoffTimeouts == {100, DefaultTimeout, 200000}

\* retry.ts:97-104: retryWithBackoff sets currentDelay and enters retry()
InitBackoff ==
    /\ rpc = "call"
    /\ site = "backoff"
    /\ opts \in {RetryOptions(t, d, m, s) :
                    t \in BackoffTimeouts, d \in BackoffDelays,
                    m \in {Undefined} \cup {Some(n) : n \in 1..MaxRetriesBound},
                    s \in BOOLEAN}
    /\ startTime = 0
    /\ now = 0
    /\ attempts = 0
    /\ lastError = "none"
    /\ retryResult = "none"
    /\ retryError = NoError
    /\ fnCalls = 0
    /\ delayCalls = 0
    /\ debugLog = <<>>
    /\ delayArgs = <<>>
    /\ currentDelay = initialDelay(opts.delay)
    /\ fnOutcome = "none"
    /\ clockByDelay = TRUE
    /\ procAlive = FALSE /\ procPerm = TRUE /\ logFile = NoFile
    /\ cpc = "idle" /\ stateThrows = FALSE /\ unlinkFails = FALSE /\ CleanupIdle
    /\ TunnelIdle
    /\ inv = "none" /\ pc = "idle"
    /\ saved = [isPost |-> "", tunnelPid |-> NoPid, tunnelLogPath |-> ""]
    /\ outputs = NoOutputs /\ failedMsg = "" /\ exitCode = 0 /\ exitStatus = -1
    /\ prComment = FALSE
    /\ options = DefaultOptions
    /\ InstIdle
    /\ PrIdle

SpecBackoff == InitBackoff /\ [][NextRetry]_vars

(***************************************************************************)
(* SpecCleanup: cleanup() from an arbitrary persisted state                *)
(***************************************************************************)

InitCleanup ==
    /\ RetryIdle
    /\ procAlive \in BOOLEAN
    /\ procPerm \in BOOLEAN
    /\ logFile \in {NoFile, NoiseChunk, HostChunk}
    /\ cpc = "start"
    /\ stateThrows \in BOOLEAN
    /\ unlinkFails \in BOOLEAN
    /\ CleanupIdle
    /\ TunnelIdle
    /\ inv = "post" /\ pc = "cleanup"
    /\ saved \in [isPost : {"true"}, tunnelPid : {NoPid, BadPid, ThePid},
                  tunnelLogPath : {"", LogPath}]
    /\ outputs = NoOutputs /\ failedMsg = "" /\ exitCode = 0 /\ exitStatus = -1
    /\ prComment = FALSE
    /\ options = DefaultOptions
    /\ InstIdle
    /\ PrIdle

NextCleanup ==
    \/ cleanup
    \/ ProcExits

SpecCleanup == InitCleanup /\ [][NextCleanup]_vars
(***************************************************************************)
(* main.ts: run()                                                          *)
(***************************************************************************)

RunCatchRethrows(message) ==
    /\ outputs' = outputs
    /\ failedMsg' = failedMsg
    /\ exitCode' = exitCode
    /\ pc' = "run_done"

\* main.ts (index.test.ts:190-193): the catch block of run()
RunCatch(message) ==
    /\ outputs' = [outputs EXCEPT !.status = "failed"]
    /\ failedMsg' = message
    /\ exitCode' = 1           \* core.setFailed sets process.exitCode
    /\ pc' = "run_done"

\* main.ts (index.test.ts:117-130): read and validate the inputs
RunValidate ==
    /\ pc = "run"
    /\ \E portOk \in BOOLEAN :
          IF portOk
          THEN pc' = "install" /\ UNCHANGED <<outputs, failedMsg, exitCode>>
          ELSE RunCatch("Invalid port")
    /\ UNCHANGED <<inv, saved, exitStatus, prComment, options>>
    /\ UNCHANGED <<retryVars, envVars, cleanupVars, tunnelVars>>
    /\ UNCHANGED <<instVars, prVars>>

\* main.ts (index.test.ts:133-135): installLocalXpose() resolves or rejects
RunInstall ==
    /\ pc = "install"
    /\ \E installed \in BOOLEAN :
          IF installed
          THEN pc' = "open" /\ UNCHANGED <<outputs, failedMsg, exitCode>>
          ELSE RunCatch("Failed to download LocalXpose")
    /\ UNCHANGED <<inv, saved, exitStatus, prComment, options>>
    /\ UNCHANGED <<retryVars, envVars, cleanupVars, tunnelVars>>
    /\ UNCHANGED <<instVars, prVars>>

(***************************************************************************)
(* tunnel.ts: createTunnel() and waitForTunnel()                           *)
(***************************************************************************)

WaitTimeout == 30000      \* tunnel.ts:140
WaitDelay == 500          \* tunnel.ts:171
VerifyBudget == 30000     \* tunnel.ts:103
VerifyMaxRetries == 10    \* tunnel-verify.ts:79
VerifyDelay == 1000       \* tunnel-verify.ts:80
ProbeAbortAfter == 5000   \* tunnel-verify.ts:20

ErrExited == "Tunnel process exited unexpectedly"
ErrNotYet == "Tunnel URL not found in log yet"
ErrWaitTimeout == "Timeout waiting for tunnel to establish after 30000ms"
ErrNoPid == "Failed to start tunnel process"
ErrNotReachable == "Tunnel URL was generated but is not reachable"

MsgTypeWarning == "Tunnel type is not officially supported by this action"
MsgVerifyFailed == "Tunnel verification failed"
MsgCommentFailed == "Failed to post PR comment"

\* The path of the CLI installLocalXpose() gave (the value the tests use)
CliPath == "/path/to/loclx"

\* `${options.port}`: the decimal text of the port number
portText(port) ==
    IF port = 3000 THEN "3000" ELSE IF port = 8080 THEN "8080" ELSE "NaN"

argsWithToken(o) ==
    << <<"tunnel">>, <<o.type>>, <<"--to=", portText(o.port)>> >>
        \o (IF o.region # "" THEN << <<"--region=", o.region>> >> ELSE <<>>)
        \o (IF o.subdomain # "" THEN << <<"--subdomain=", o.subdomain>> >> ELSE <<>>)
        \o (IF o.token # "" THEN << <<"--token=", o.token>> >> ELSE <<>>)

\* tunnel.ts:53-61: the argument list; an argument is the sequence of the pieces
\* its template is filled with
args(o) ==
    << <<"tunnel">>, <<o.type>>, <<"--to=", portText(o.port)>> >>
        \o (IF o.region # "" THEN << <<"--region=", o.region>> >> ELSE <<>>)
        \o (IF o.subdomain # "" THEN << <<"--subdomain=", o.subdomain>> >> ELSE <<>>)

\* tunnel.ts:64-67: LX_ACCESS_TOKEN in the environment of the child ("": not set
\* by createTunnel)
env(o) == IF o.token # "" THEN o.token ELSE ""

\* tunnel.ts:48-50: the command line written with core.info
cmdLine(o) == <<CliPath, "tunnel", o.type, "--to=", portText(o.port)>>

\* tunnel.ts:48-78: what createTunnel logs and hands to spawn
Spawned(o) == [args |-> args(o), env |-> env(o), cmdLine |-> cmdLine(o)]

\* tunnel.ts:33-37: open (create or truncate) the log file
CtOpen ==
    /\ pc = "open"
    /\ \E opened \in BOOLEAN :
          IF opened
          THEN /\ sink' = "open"
               /\ logFile' = <<>>
               /\ pc' = "spawn"
               /\ UNCHANGED <<outputs, failedMsg, exitCode>>
          ELSE /\ RunCatch("open failed")
               /\ UNCHANGED <<sink, logFile>>
    /\ UNCHANGED <<inv, saved, exitStatus, prComment, options>>
    /\ UNCHANGED <<childPid, handlers, tickQueued, unrefd, logReads, sigProbes, absentSeen,
                   wftState, httpProbes, verifyState, returned,
                   tunnelInfo, lastProbe,
                   spawned, isReachable, warnings, lateOutput, dropped>>
    /\ UNCHANGED <<procAlive, procPerm>>
    /\ UNCHANGED <<retryVars, cleanupVars>>
    /\ UNCHANGED <<instVars, prVars>>

CtSpawnAttachesFirst ==
    /\ pc = "spawn"
    /\ warnings' = IF options.type # "http"
                   THEN Append(warnings, MsgTypeWarning)
                   ELSE warnings
    /\ spawned' = Spawned(options)
    /\ \E gotPid \in BOOLEAN :
          IF gotPid
          THEN /\ childPid' = ChildPid
               /\ procAlive' = TRUE
               /\ handlers' = "capture"
               /\ RetryEnter("wft", RetryOptions(WaitTimeout, WaitDelay, Undefined, TRUE))
               /\ pc' = "wft"
               /\ UNCHANGED <<outputs, failedMsg, exitCode>>
          ELSE /\ RunCatch(ErrNoPid)
               /\ handlers' = "capture"
               /\ UNCHANGED <<childPid, procAlive>>
               /\ UNCHANGED <<rpc, site, opts, startTime, attempts, lastError, retryResult,
                              retryError, fnCalls, delayCalls, debugLog, delayArgs,
                              currentDelay, fnOutcome, clockByDelay>>
    /\ now' = now
    /\ UNCHANGED <<inv, saved, exitStatus, prComment, options>>
    /\ UNCHANGED <<sink, tickQueued, unrefd, logReads, sigProbes, absentSeen, wftState,
                   httpProbes, verifyState, returned,
                   tunnelInfo, lastProbe, isReachable, lateOutput, dropped>>
    /\ UNCHANGED <<procPerm, logFile>>
    /\ UNCHANGED cleanupVars
    /\ UNCHANGED <<instVars, prVars>>

\* tunnel.ts:39-99: warn about an untested type, log the command line and spawn
\* the child; without a pid fail, else attach the capture handlers and call
\* waitForTunnel, which enters retry()
CtSpawn ==
    /\ pc = "spawn"
    /\ warnings' = IF options.type # "http"
                   THEN Append(warnings, MsgTypeWarning)
                   ELSE warnings
    /\ spawned' = Spawned(options)
    /\ \E gotPid \in BOOLEAN :
          IF gotPid
          THEN /\ childPid' = ChildPid
               /\ procAlive' = TRUE
               /\ handlers' = "capture"
               /\ RetryEnter("wft", RetryOptions(WaitTimeout, WaitDelay, Undefined, TRUE))
               /\ pc' = "wft"
               /\ UNCHANGED <<outputs, failedMsg, exitCode>>
          ELSE /\ RunCatch(ErrNoPid)
               /\ UNCHANGED <<childPid, procAlive, handlers>>
               /\ UNCHANGED <<rpc, site, opts, startTime, attempts, lastError, retryResult,
                              retryError, fnCalls, delayCalls, debugLog, delayArgs,
                              currentDelay, fnOutcome, clockByDelay>>
    /\ now' = now
    /\ UNCHANGED <<inv, saved, exitStatus, prComment, options>>
    /\ UNCHANGED <<sink, tickQueued, unrefd, logReads, sigProbes, absentSeen, wftState,
                   httpProbes, verifyState, returned,
                   tunnelInfo, lastProbe, isReachable, lateOutput, dropped>>
    /\ UNCHANGED <<procPerm, logFile>>
    /\ UNCHANGED cleanupVars
    /\ UNCHANGED <<instVars, prVars>>

\* What the log holds after logStream.write(data)
appended(content, chunk) == content \o chunk

\* tunnel.ts:85-96 and 113-121: the child writes a chunk to stdout or stderr and
\* the 'data' event is emitted while the action's process runs (not between the
\* process.nextTick call and its callback: the tick queue is emptied before the
\* next I/O event); the capture handlers append it to the log sink (a write to
\* the closed sink is rejected and the rejection ignored), the handlers attached
\* later pass it to core.debug only, and without handlers it is dropped
ChildOutput ==
    /\ procAlive
    /\ childPid # 0
    /\ inv = "main"
    /\ exitStatus = -1
    /\ ~tickQueued
    /\ \E chunk \in {NoiseChunk, HostChunk} :
          IF handlers = "capture" /\ sink = "open"
          THEN /\ Len(logFile) + Len(chunk) <= MaxLogLen
               /\ logFile' = appended(logFile, chunk)
               /\ lateOutput' = lateOutput
               /\ dropped' = dropped
          ELSE /\ logFile' = logFile
               /\ dropped' = (dropped \/ handlers = "none")
               /\ lateOutput' = IF sink # "closed" \/ handlers = "none"
                                THEN lateOutput
                                ELSE IF handlers = "capture" \/ lateOutput = "sink"
                                THEN "sink"
                                ELSE "debug"
    /\ UNCHANGED <<procAlive, procPerm>>
    /\ UNCHANGED <<childPid, sink, handlers, tickQueued, unrefd, logReads, sigProbes,
                   absentSeen, wftState, httpProbes, verifyState, returned, tunnelInfo,
                   lastProbe, spawned, isReachable, warnings>>
    /\ UNCHANGED <<retryVars, cleanupVars, actionVars>>
    /\ UNCHANGED <<instVars, prVars>>

\* tunnel.ts:149: the characters of the class [a-zA-Z0-9.-] among the characters
\* the contents of the model are made of; every other character is outside it
HostChars == {"a", "b", "1", "l", "o", "c", "x", "i", ".", "-"}

\* tunnel.ts:149: the literal \.loclx\.io
Suffix == <<".", "l", "o", "c", "l", "x", ".", "i", "o">>

\* The literal follows position k of the content
SuffixAfter(s, k) ==
    k + Len(Suffix) <= Len(s) /\ SubSeq(s, k + 1, k + Len(Suffix)) = Suffix

\* The end of the longest run of class characters that starts at i (i - 1: none)
RunEnd(s, i) ==
    CHOOSE j \in (i - 1)..Len(s) :
        /\ \A k \in i..j : s[k] \in HostChars
        /\ (j = Len(s) \/ s[j + 1] \notin HostChars)

Least(S) == CHOOSE x \in S : \A y \in S : x <= y
Greatest(S) == CHOOSE x \in S : \A y \in S : x >= y

MatchFromLazy(s, i) ==
    LET ends == {k \in i..RunEnd(s, i) : SuffixAfter(s, k)}
    IN IF ends = {} THEN <<>> ELSE SubSeq(s, i, Least(ends) + Len(Suffix))

\* tunnel.ts:149: the match attempt at start position i: [a-zA-Z0-9.-]+ is
\* greedy, it takes the whole run and gives characters back until the literal
\* follows; <<>> when the pattern does not match from i
MatchFrom(s, i) ==
    LET ends == {k \in i..RunEnd(s, i) : SuffixAfter(s, k)}
    IN IF ends = {} THEN <<>> ELSE SubSeq(s, i, Greatest(ends) + Len(Suffix))

\* tunnel.ts:149-152: logContent.match(/([a-zA-Z0-9.-]+\.loclx\.io)/): the match
\* from the first start position that has one (hostnameMatch[1]); <<>> for null
hostnameMatch(logContent) ==
    LET starts == {i \in 1..Len(logContent) : MatchFrom(logContent, i) # <<>>}
    IN IF starts = {} THEN <<>> ELSE MatchFrom(logContent, Least(starts))

\* tunnel.ts:153: `https://${hostname}`
Https == <<"h", "t", "t", "p", "s", ":", "/", "/">>
urlOf(hostname) == Https \o hostname

WftCallProbesFirst ==
    /\ rpc = "call"
    /\ site = "wft"
    /\ logReads' = logReads + 1
    /\ sigProbes' = sigProbes + 1
    /\ IF kill(childPid) # "ok"
       THEN FnFails(ErrExited) /\ absentSeen' = TRUE
       ELSE /\ absentSeen' = absentSeen
            /\ IF hostnameMatch(logFile) # <<>>
               THEN FnSucceeds([hostname |-> hostnameMatch(logFile),
                                url |-> urlOf(hostnameMatch(logFile))])
               ELSE FnFails(ErrNotYet)
    /\ now' = now
    /\ clockByDelay' = clockByDelay
    /\ UNCHANGED <<childPid, sink, handlers, tickQueued, unrefd, wftState, httpProbes,
                   verifyState, returned,
                   tunnelInfo, lastProbe,
                   spawned, isReachable, warnings, lateOutput, dropped>>
    /\ UNCHANGED <<envVars, cleanupVars, actionVars>>
    /\ UNCHANGED <<instVars, prVars>>

\* tunnel.ts:144-168: one attempt of waitForTunnel's fn
WftCall ==
    /\ rpc = "call"
    /\ site = "wft"
    /\ logReads' = logReads + 1
    /\ IF hostnameMatch(logFile) # <<>>
       THEN /\ FnSucceeds([hostname |-> hostnameMatch(logFile),
                            url |-> urlOf(hostnameMatch(logFile))])
            /\ UNCHANGED <<sigProbes, absentSeen>>
       ELSE /\ sigProbes' = sigProbes + 1
            /\ IF kill(childPid) # "ok"
               THEN FnFails(ErrExited) /\ absentSeen' = TRUE
               ELSE FnFails(ErrNotYet) /\ absentSeen' = absentSeen
    /\ now' = now
    /\ clockByDelay' = clockByDelay
    /\ UNCHANGED <<childPid, sink, handlers, tickQueued, unrefd, wftState, httpProbes,
                   verifyState, returned,
                   tunnelInfo, lastProbe,
                   spawned, isReachable, warnings, lateOutput, dropped>>
    /\ UNCHANGED <<envVars, cleanupVars, actionVars>>
    /\ UNCHANGED <<instVars, prVars>>

WftReturnClosesSink ==
    /\ rpc = "returned"
    /\ site = "wft"
    /\ wftState' = "ok"
    /\ tunnelInfo' = retryResult
    /\ sink' = "closed"
    /\ RetryEnter("verify",
                  RetryOptions(VerifyBudget, VerifyDelay, Some(VerifyMaxRetries), FALSE))
    /\ now' = now
    /\ pc' = "verify"
    /\ UNCHANGED <<childPid, handlers, tickQueued, unrefd, logReads, sigProbes,
                   absentSeen, httpProbes, verifyState, returned, lastProbe,
                   spawned, isReachable, warnings, lateOutput, dropped>>
    /\ UNCHANGED <<inv, saved, outputs, failedMsg, exitCode, exitStatus, prComment, options>>
    /\ UNCHANGED <<envVars, cleanupVars>>
    /\ UNCHANGED <<instVars, prVars>>

\* tunnel.ts:99-103 and tunnel-verify.ts:96-100, 10-17: waitForTunnel returned;
\* waitForTunnelReady calls verifyTunnelReachability, which enters retry()
WftReturn ==
    /\ rpc = "returned"
    /\ site = "wft"
    /\ wftState' = "ok"
    /\ tunnelInfo' = retryResult
    /\ RetryEnter("verify",
                  RetryOptions(VerifyBudget, VerifyDelay, Some(VerifyMaxRetries), FALSE))
    /\ now' = now
    /\ pc' = "verify"
    /\ UNCHANGED <<childPid, sink, handlers, tickQueued, unrefd, logReads, sigProbes,
                   absentSeen, httpProbes, verifyState, returned, lastProbe,
                   spawned, isReachable, warnings, lateOutput, dropped>>
    /\ UNCHANGED <<inv, saved, outputs, failedMsg, exitCode, exitStatus, prComment, options>>
    /\ UNCHANGED <<envVars, cleanupVars>>
    /\ UNCHANGED <<instVars, prVars>>

\* tunnel.ts:175-186: the catch block of waitForTunnel on a RetryError; the error
\* it throws passes through createTunnel to the catch block of run()
WftThrowKeepsRetryError ==
    /\ rpc = "thrown"
    /\ site = "wft"
    /\ wftState' = "failed"
    /\ RetryLeave
    /\ now' = now
    /\ RunCatch(IF retryError.lastError = ErrExited
                THEN ErrExited
                ELSE "Failed after timeout after 30000ms: Tunnel URL not found in log yet")
    /\ UNCHANGED <<childPid, sink, handlers, tickQueued, unrefd, logReads, sigProbes,
                   absentSeen, httpProbes, verifyState, returned, tunnelInfo, lastProbe,
                   spawned, isReachable, warnings, lateOutput, dropped>>
    /\ UNCHANGED <<inv, saved, exitStatus, prComment, options>>
    /\ UNCHANGED <<envVars, cleanupVars>>
    /\ UNCHANGED <<instVars, prVars>>

WftThrow ==
    /\ rpc = "thrown"
    /\ site = "wft"
    /\ wftState' = "failed"
    /\ RetryLeave
    /\ now' = now
    /\ RunCatch(IF retryError.lastError = ErrExited THEN ErrExited ELSE ErrWaitTimeout)
    /\ UNCHANGED <<childPid, sink, handlers, tickQueued, unrefd, logReads, sigProbes,
                   absentSeen, httpProbes, verifyState, returned,
                   tunnelInfo, lastProbe,
                   spawned, isReachable, warnings, lateOutput, dropped>>
    /\ UNCHANGED <<inv, saved, exitStatus, prComment, options>>
    /\ UNCHANGED <<envVars, cleanupVars>>
    /\ UNCHANGED <<instVars, prVars>>

(***************************************************************************)
(* SpecSpawn: createTunnel(cliPath, options) for arbitrary options, up to  *)
(* the spawn                                                               *)
(***************************************************************************)

\* The auth tokens, and the TunnelOptions createTunnel is called with ("": the
\* field is not set)
AuthTokens == {"", "tok1", "tok2"}
OptionValues ==
    {TunnelOptions(type, port, region, subdomain, token) :
        type \in {"http", "tcp"}, port \in {3000, 8080}, region \in {"", "us"},
        subdomain \in {"", "myapp"}, token \in AuthTokens}

\* tunnel.ts:29-32: createTunnel is called (run() has installed the CLI)
InitSpawn ==
    /\ RetryIdle
    /\ procAlive = FALSE
    /\ procPerm = TRUE
    /\ logFile = NoFile
    /\ cpc = "idle"
    /\ stateThrows = FALSE
    /\ unlinkFails = FALSE
    /\ CleanupIdle
    /\ TunnelIdle
    /\ inv = "main"
    /\ pc = "open"
    /\ saved = [isPost |-> "true", tunnelPid |-> NoPid, tunnelLogPath |-> ""]
    /\ outputs = NoOutputs
    /\ failedMsg = ""
    /\ exitCode = 0
    /\ exitStatus = -1
    /\ prComment = FALSE
    /\ options \in OptionValues
    /\ InstIdle
    /\ PrIdle

NextSpawn ==
    \/ CtOpen
    \/ CtSpawn

SpecSpawn == InitSpawn /\ [][NextSpawn]_vars

(***************************************************************************)
(* SpecInstances: two createTunnel invocations side by side, each up to    *)
(* the extraction of its hostname                                          *)
(***************************************************************************)

\* The line with the address that the child of invocation i writes
HostChunkOf(i) ==
    IF i = 1 THEN HostChunk
    ELSE <<" ", "b", "1", ".", "l", "o", "c", "l", "x", ".", "i", "o", " ">>

\* What the file holds after the first logStream.write(data) of a handle opened
\* with fs.open(logPath, 'w'): the handle writes from its position 0
written(content, chunk) == chunk \o SubSeq(content, Len(chunk) + 1, Len(content))

\* tunnel.ts:33-37, 72-96: invocation i reads the clock for its log path, opens
\* the file (creating or truncating it) and spawns its child
InstOpen(i) ==
    /\ instPc[i] = "start"
    /\ instPath' = [instPath EXCEPT ![i] = logPathAt(now)]
    /\ logFiles' = [logFiles EXCEPT ![logPathAt(now)] = <<>>]
    /\ instPc' = [instPc EXCEPT ![i] = "spawned"]
    /\ UNCHANGED instResult
    /\ UNCHANGED <<retryVars, envVars, cleanupVars, tunnelVars, actionVars, prVars>>

\* tunnel.ts:85-96: the child of invocation i writes its line, the capture
\* handler of i writes it to the handle of i
InstOutput(i) ==
    /\ instPc[i] = "spawned"
    /\ logFiles' = [logFiles EXCEPT ![instPath[i]] = written(@, HostChunkOf(i))]
    /\ instPc' = [instPc EXCEPT ![i] = "written"]
    /\ UNCHANGED <<instPath, instResult>>
    /\ UNCHANGED <<retryVars, envVars, cleanupVars, tunnelVars, actionVars, prVars>>

\* tunnel.ts:145-157: an attempt of waitForTunnel of invocation i that finds a
\* hostname in the file at its log path (another attempt changes nothing)
InstRead(i) ==
    /\ instPc[i] \in {"spawned", "written"}
    /\ hostnameMatch(logFiles[instPath[i]]) # <<>>
    /\ instResult' = [instResult EXCEPT ![i] = hostnameMatch(logFiles[instPath[i]])]
    /\ instPc' = [instPc EXCEPT ![i] = "done"]
    /\ UNCHANGED <<instPath, logFiles>>
    /\ UNCHANGED <<retryVars, envVars, cleanupVars, tunnelVars, actionVars, prVars>>

\* A millisecond passes
InstTick ==
    /\ now < MaxClock
    /\ now' = now + 1
    /\ UNCHANGED <<rpc, site, opts, startTime, attempts, lastError, retryResult,
                   retryError, fnCalls, delayCalls, debugLog, delayArgs, currentDelay,
                   fnOutcome, clockByDelay>>
    /\ UNCHANGED <<envVars, cleanupVars, tunnelVars, actionVars, instVars, prVars>>

InitInstances ==
    /\ RetryIdle
    /\ procAlive = FALSE
    /\ procPerm = TRUE
    /\ logFile = NoFile
    /\ cpc = "idle"
    /\ stateThrows = FALSE
    /\ unlinkFails = FALSE
    /\ CleanupIdle
    /\ TunnelIdle
    /\ inv = "main"
    /\ pc = "idle"
    /\ saved = [isPost |-> "true", tunnelPid |-> NoPid, tunnelLogPath |-> ""]
    /\ outputs = NoOutputs
    /\ failedMsg = ""
    /\ exitCode = 0
    /\ exitStatus = -1
    /\ prComment = FALSE
    /\ options = DefaultOptions
    /\ InstIdle
    /\ PrIdle

NextInstances ==
    \/ \E i \in Instances : InstOpen(i)
    \/ \E i \in Instances : InstOutput(i)
    \/ \E i \in Instances : InstRead(i)
    \/ InstTick

SpecInstances == InitInstances /\ [][NextInstances]_vars

(***************************************************************************)
(* SpecComments: the updatePRComment calls of two action instances on the  *)
(* same pull request (steps of one job, or jobs that run in parallel)      *)
(***************************************************************************)

\* pr-comment.ts:115: tunnels older than 20 minutes are removed
MaxTunnelAge == 1200000

\* The time that passes in one step of the clock
Wait == MaxTunnelAge \div 2

\* pr-comment.ts:4-11, 51-58: a TunnelEntry, by the fields the list is kept with
TunnelEntry(name, jobName, timestamp) ==
    [name |-> name, jobName |-> jobName, timestamp |-> timestamp]

\* pr-comment-name and the job of each instance (README.md:150-167), and the
\* entry an earlier step left in the comment (part_000:101-116)
NameOf(i) == IF i = 1 THEN "Frontend" ELSE "API"
JobOf(i) == "deploy"
EarlierEntry == TunnelEntry("Backend", "backend-job", 0)

\* pr-comment.ts:125: a.name.localeCompare(b.name) orders the names of the model
\* as API < Backend < Frontend
nameRank(name) == IF name = "API" THEN 1 ELSE IF name = "Backend" THEN 2 ELSE 3

\* pr-comment.ts:30
commentIdentifier == "<!-- localxpose-tunnels -->"

\* pr-comment.ts:131-189: the comment body, by its first line and by the tunnels
\* its tunnels-data block carries (base64 of their JSON text)
generateCommentBody(tunnels) == [identifier |-> commentIdentifier, tunnelsData |-> tunnels]

\* A comment somebody else wrote: no marker, no tunnels-data block
OtherComment == [identifier |-> "", tunnelsData |-> <<>>]

\* pr-comment.ts:95-105: the tunnels of the tunnels-data block ([] without one)
parseExistingTunnels(commentBody) == commentBody.tunnelsData

RECURSIVE sort(_)
\* pr-comment.ts:125: Array.prototype.sort by name (stable)
sort(ts) ==
    IF ts = <<>> THEN <<>>
    ELSE LET front == sort(SubSeq(ts, 1, Len(ts) - 1))
             e == ts[Len(ts)]
             k == Cardinality({j \in 1..Len(front) :
                                  nameRank(front[j].name) <= nameRank(e.name)})
         IN SubSeq(front, 1, k) \o <<e>> \o SubSeq(front, k + 1, Len(front))

\* pr-comment.ts:110-126: updateTunnelsList when Date.now() gives t
isActive(entry, t) == entry.timestamp > t - MaxTunnelAge
updateTunnelsList(existing, newTunnel, t) ==
    LET keep(e) == isActive(e, t)
                   /\ ~(e.name = newTunnel.name /\ e.jobName = newTunnel.jobName)
    IN sort(Append(SelectSeq(existing, keep), newTunnel))

\* pr-comment.ts:34-42: the id of the first comment whose body includes the
\* marker (0: none); the id of a comment is its place among the comments
existingComment(comments) ==
    LET marked == {k \in 1..Len(comments) : comments[k].identifier = commentIdentifier}
    IN IF marked = {} THEN 0 ELSE Least(marked)

\* pr-comment.ts:34-64: instance i lists the comments, finds the marker comment
\* and builds the body it is going to write
PrList(i) ==
    /\ prPc[i] = "start"
    /\ LET id == existingComment(prComments)
           existingTunnels == IF id = 0 THEN <<>>
                              ELSE parseExistingTunnels(prComments[id])
           currentTunnel == TunnelEntry(NameOf(i), JobOf(i), now)
       IN prPending' = [prPending EXCEPT ![i] =
              [id |-> id,
               body |-> generateCommentBody(
                            updateTunnelsList(existingTunnels, currentTunnel, now)),
               entry |-> currentTunnel]]
    /\ prPc' = [prPc EXCEPT ![i] = "listed"]
    /\ UNCHANGED prComments
    /\ UNCHANGED <<retryVars, envVars, cleanupVars, tunnelVars, actionVars, instVars>>

\* pr-comment.ts:66-82: instance i updates the comment it found, or creates one
PrWrite(i) ==
    /\ prPc[i] = "listed"
    /\ prComments' = IF prPending[i].id # 0
                     THEN [prComments EXCEPT ![prPending[i].id] = prPending[i].body]
                     ELSE Append(prComments, prPending[i].body)
    /\ prPc' = [prPc EXCEPT ![i] = "done"]
    /\ UNCHANGED prPending
    /\ UNCHANGED <<retryVars, envVars, cleanupVars, tunnelVars, actionVars, instVars>>

\* Time passes between the calls
PrWait ==
    /\ now < MaxWaits * Wait
    /\ now' = now + Wait
    /\ UNCHANGED <<rpc, site, opts, startTime, attempts, lastError, retryResult,
                   retryError, fnCalls, delayCalls, debugLog, delayArgs, currentDelay,
                   fnOutcome, clockByDelay>>
    /\ UNCHANGED <<envVars, cleanupVars, tunnelVars, actionVars, instVars, prVars>>

\* The pull request has no marker comment yet, or the one an earlier step made
InitComments ==
    /\ RetryIdle
    /\ procAlive = FALSE
    /\ procPerm = TRUE
    /\ logFile = NoFile
    /\ cpc = "idle"
    /\ stateThrows = FALSE
    /\ unlinkFails = FALSE
    /\ CleanupIdle
    /\ TunnelIdle
    /\ inv = "main"
    /\ pc = "comment"
    /\ saved = [isPost |-> "true", tunnelPid |-> NoPid, tunnelLogPath |-> ""]
    /\ outputs = NoOutputs
    /\ failedMsg = ""
    /\ exitCode = 0
    /\ exitStatus = -1
    /\ prComment = TRUE
    /\ options = DefaultOptions
    /\ InstIdle
    /\ prPc = [i \in Instances |-> "start"]
    /\ prPending = [i \in Instances |-> NoPending]
    /\ prComments \in {<<>>, <<OtherComment>>,
                       <<OtherComment, generateCommentBody(<<EarlierEntry>>)>>}

NextComments ==
    \/ \E i \in Instances : PrList(i)
    \/ \E i \in Instances : PrWrite(i)
    \/ PrWait

SpecComments == InitComments /\ [][NextComments]_vars

(***************************************************************************)
(* SpecExtract: waitForTunnel(logPath, pid) on arbitrary log contents      *)
(***************************************************************************)

\* The pieces the log contents of SpecExtract are made of
Tokens == {<<"a">>, <<".">>, <<" ">>, Suffix}

RECURSIVE Flatten(_)
Flatten(ts) == IF ts = <<>> THEN <<>> ELSE Head(ts) \o Flatten(Tail(ts))

\* The contents of at most MaxTokens pieces
LogContents ==
    {Flatten(ts) : ts \in UNION {[1..n -> Tokens] : n \in 0..MaxTokens}}

\* tunnel.ts:99, 137-143: createTunnel has spawned the child and attached the
\* capture handlers, waitForTunnel has entered retry(); the log holds what the
\* child wrote so far, and the child may be gone already
InitExtract ==
    /\ rpc = "call"
    /\ site = "wft"
    /\ opts = RetryOptions(WaitTimeout, WaitDelay, Undefined, TRUE)
    /\ startTime = 0
    /\ now = 0
    /\ attempts = 0
    /\ lastError = "none"
    /\ retryResult = "none"
    /\ retryError = NoError
    /\ fnCalls = 0
    /\ delayCalls = 0
    /\ debugLog = <<>>
    /\ delayArgs = <<>>
    /\ currentDelay = 0
    /\ fnOutcome = "none"
    /\ clockByDelay = FALSE
    /\ procAlive \in BOOLEAN
    /\ procPerm = TRUE
    /\ logFile \in LogContents
    /\ cpc = "idle" /\ stateThrows = FALSE /\ unlinkFails = FALSE /\ CleanupIdle
    /\ childPid = ChildPid
    /\ sink = "open"
    /\ handlers = "capture"
    /\ tickQueued = FALSE
    /\ unrefd = FALSE
    /\ logReads = 0
    /\ sigProbes = 0
    /\ absentSeen = FALSE
    /\ wftState = "no"
    /\ httpProbes = 0
    /\ verifyState = "no"
    /\ returned = FALSE
    /\ tunnelInfo = NoTunnelInfo
    /\ lastProbe = NoProbe
    /\ spawned = Spawned(DefaultOptions)
    /\ isReachable = "none"
    /\ warnings = <<>>
    /\ lateOutput = "none"
    /\ dropped = FALSE
    /\ inv = "main" /\ pc = "wft"
    /\ saved = [isPost |-> "true", tunnelPid |-> NoPid, tunnelLogPath |-> ""]
    /\ outputs = NoOutputs /\ failedMsg = "" /\ exitCode = 0 /\ exitStatus = -1
    /\ prComment = FALSE
    /\ options = DefaultOptions
    /\ InstIdle
    /\ PrIdle

NextExtract ==
    \/ ChildOutput
    \/ ProcExits
    \/ WftCall
    \/ RetryCatch
    \/ RetryDelay

SpecExtract == InitExtract /\ [][NextExtract]_vars

(***************************************************************************)
(* SpecProbes: waitForTunnel(logPath, pid), or cleanup(), on a process the *)
(* action may or may not be permitted to signal                            *)
(***************************************************************************)

\* tunnel.ts:99, 137-143: waitForTunnel has entered retry() with the log still
\* empty; the child may be gone, or be one the action may not signal
InitProbeWait ==
    /\ rpc = "call"
    /\ site = "wft"
    /\ opts = RetryOptions(WaitTimeout, WaitDelay, Undefined, TRUE)
    /\ startTime = 0
    /\ now = 0
    /\ attempts = 0
    /\ lastError = "none"
    /\ retryResult = "none"
    /\ retryError = NoError
    /\ fnCalls = 0
    /\ delayCalls = 0
    /\ debugLog = <<>>
    /\ delayArgs = <<>>
    /\ currentDelay = 0
    /\ fnOutcome = "none"
    /\ clockByDelay = FALSE
    /\ procAlive \in BOOLEAN
    /\ procPerm \in BOOLEAN
    /\ logFile = <<>>
    /\ cpc = "idle" /\ stateThrows = FALSE /\ unlinkFails = FALSE /\ CleanupIdle
    /\ childPid = ChildPid
    /\ sink = "open"
    /\ handlers = "capture"
    /\ tickQueued = FALSE
    /\ unrefd = FALSE
    /\ logReads = 0
    /\ sigProbes = 0
    /\ absentSeen = FALSE
    /\ wftState = "no"
    /\ httpProbes = 0
    /\ verifyState = "no"
    /\ returned = FALSE
    /\ tunnelInfo = NoTunnelInfo
    /\ lastProbe = NoProbe
    /\ spawned = Spawned(DefaultOptions)
    /\ isReachable = "none"
    /\ warnings = <<>>
    /\ lateOutput = "none"
    /\ dropped = FALSE
    /\ inv = "main" /\ pc = "wft"
    /\ saved = [isPost |-> "true", tunnelPid |-> NoPid, tunnelLogPath |-> ""]
    /\ outputs = NoOutputs /\ failedMsg = "" /\ exitCode = 0 /\ exitStatus = -1
    /\ prComment = FALSE
    /\ options = DefaultOptions
    /\ InstIdle
    /\ PrIdle

\* Either waitForTunnel is entered, or cleanup is (cleanup.ts:8)
InitProbes == InitProbeWait \/ InitCleanup

NextProbes ==
    \/ ChildOutput
    \/ ProcExits
    \/ WftCall
    \/ RetryCatch
    \/ RetryDelay
    \/ WftThrow
    \/ cleanup

SpecProbes == InitProbes /\ [][NextProbes]_vars

(***************************************************************************)
(* tunnel-verify.ts: verifyTunnelReachability() and waitForTunnelReady()   *)
(***************************************************************************)

ErrMarker404 == "LocalXpose returned: 404 TUNNEL NOT FOUND"
ErrLocalXpose == "LocalXpose error"
ErrStatus == "Tunnel returned status"
ErrAbort == "Request timeout - tunnel not responding"
ErrNetwork == "fetch failed"

\* The HTTP statuses and the bodies of the follow-up GET the model draws from
Statuses == {200, 302, 399, 400, 404, 500, 502}
Bodies == {"<title>404 TUNNEL NOT FOUND</title>", "<title>502 BAD GATEWAY</title>", "other"}

\* tunnel-verify.ts:41: text.includes('<title>404 TUNNEL NOT FOUND</title>')
hasMarker404(body) == body = "<title>404 TUNNEL NOT FOUND</title>"

\* tunnel-verify.ts:60: text.match(/<title>\d{3}\s+[A-Z\s]+<\/title>/)
hasErrorTitle(body) == body # "other"

getsAlways(status) == 1

\* tunnel-verify.ts:33-38, 56-57: the number of GET requests that follow a HEAD
\* response with this status
gets(status) == IF status = 404 \/ status = 400 \/ status = 502 THEN 1 ELSE 0

probeOkOnly(status, body) ==
    IF status = 404 /\ hasMarker404(body) THEN ErrMarker404
    ELSE IF status >= 200 /\ status <= 299 THEN "ok"
    ELSE IF (status = 400 \/ status = 502) /\ hasErrorTitle(body) THEN ErrLocalXpose
    ELSE ErrStatus

\* tunnel-verify.ts:30-66: what one probe makes of the HEAD status and of the body
\* of the follow-up GET: "ok", or the message of the error it throws
probe(status, body) ==
    IF status = 404 /\ hasMarker404(body) THEN ErrMarker404
    ELSE IF (status >= 200 /\ status <= 299) \/ (status >= 300 /\ status < 400) THEN "ok"
    ELSE IF (status = 400 \/ status = 502) /\ hasErrorTitle(body) THEN ErrLocalXpose
    ELSE ErrStatus

\* The ms a follow-up GET may take until its body is read: no time, or longer
\* than the 5 s of the abort timer
GetDurations == {0, 10000}

\* tunnel-verify.ts:30-39, 57-58: the ms the attempt spends in its follow-up GET
\* requests when each takes t: the abort timer is cleared once the HEAD response
\* is there (line 30), so nothing ends a GET early
getTime(n, t) == n * t

\* tunnel-verify.ts:18-76: one attempt of verifyTunnelReachability's fn: the HEAD
\* request is answered (and the follow-up GET, when there is one, is awaited), is
\* aborted after 5 s, or fails in the network
VerifyCall ==
    /\ rpc = "call"
    /\ site = "verify"
    /\ httpProbes' = httpProbes + 1
    /\ \E how \in {"response", "abort", "network"} :
          IF how = "response"
          THEN \E status \in Statuses, body \in Bodies, t \in GetDurations :
                     /\ gets(status) = 0 => t = 0
                     /\ now' = now + getTime(gets(status), t)
                     /\ clockByDelay' = (clockByDelay /\ getTime(gets(status), t) = 0)
                     /\ lastProbe' = [status |-> status, gets |-> gets(status)]
                     /\ IF probe(status, body) = "ok"
                        THEN FnSucceeds("true")
                        ELSE FnFails(probe(status, body))
          ELSE IF how = "abort"
          THEN /\ now' = now + ProbeAbortAfter
               /\ clockByDelay' = FALSE
               /\ lastProbe' = NoProbe
               /\ FnFails(ErrAbort)
          ELSE /\ now' = now
               /\ clockByDelay' = clockByDelay
               /\ lastProbe' = NoProbe
               /\ FnFails(ErrNetwork)
    /\ UNCHANGED <<childPid, sink, handlers, tickQueued, unrefd, logReads, sigProbes,
                   absentSeen, wftState, verifyState, returned, tunnelInfo,
                   spawned, isReachable, warnings, lateOutput, dropped>>
    /\ UNCHANGED <<envVars, cleanupVars, actionVars>>
    /\ UNCHANGED <<instVars, prVars>>

VerifyReturnKeepsHandlers ==
    /\ rpc = "returned"
    /\ site = "verify"
    /\ verifyState' = "ok"
    /\ handlers' = handlers
    /\ pc' = "close"
    /\ lastProbe' = NoProbe
    /\ isReachable' = "true"
    /\ RetryLeave
    /\ now' = now
    /\ UNCHANGED <<childPid, sink, tickQueued, unrefd, logReads, sigProbes, absentSeen,
                   wftState, httpProbes, returned,
                   tunnelInfo, spawned, warnings, lateOutput, dropped>>
    /\ UNCHANGED <<inv, saved, outputs, failedMsg, exitCode, exitStatus, prComment, options>>
    /\ UNCHANGED <<envVars, cleanupVars>>
    /\ UNCHANGED <<instVars, prVars>>

\* tunnel-verify.ts:85, 100-106 and tunnel.ts:105-109: the probe succeeded;
\* createTunnel removes the capture handlers and awaits logStream.close()
VerifyReturn ==
    /\ rpc = "returned"
    /\ site = "verify"
    /\ verifyState' = "ok"
    /\ handlers' = "none"
    /\ pc' = "close"
    /\ lastProbe' = NoProbe
    /\ isReachable' = "true"
    /\ RetryLeave
    /\ now' = now
    /\ UNCHANGED <<childPid, sink, tickQueued, unrefd, logReads, sigProbes, absentSeen,
                   wftState, httpProbes, returned,
                   tunnelInfo, spawned, warnings, lateOutput, dropped>>
    /\ UNCHANGED <<inv, saved, outputs, failedMsg, exitCode, exitStatus, prComment, options>>
    /\ UNCHANGED <<envVars, cleanupVars>>
    /\ UNCHANGED <<instVars, prVars>>

VerifyThrowPropagates ==
    /\ rpc = "thrown"
    /\ site = "verify"
    /\ verifyState' = "failed"
    /\ isReachable' = isReachable
    /\ warnings' = warnings
    /\ RetryLeave
    /\ now' = now
    /\ RunCatch(retryError.lastError)
    /\ UNCHANGED <<childPid, sink, handlers, tickQueued, unrefd, logReads, sigProbes,
                   absentSeen, wftState, httpProbes, returned,
                   tunnelInfo, lastProbe, spawned, lateOutput, dropped>>
    /\ UNCHANGED <<inv, saved, exitStatus, prComment, options>>
    /\ UNCHANGED <<envVars, cleanupVars>>
    /\ UNCHANGED <<instVars, prVars>>

VerifyThrowIgnored ==
    /\ rpc = "thrown"
    /\ site = "verify"
    /\ verifyState' = "ok"
    /\ isReachable' = "false"
    /\ warnings' = Append(warnings, MsgVerifyFailed)
    /\ handlers' = "none"
    /\ pc' = "close"
    /\ RetryLeave
    /\ now' = now
    /\ UNCHANGED <<childPid, sink, tickQueued, unrefd, logReads, sigProbes,
                   absentSeen, wftState, httpProbes, returned,
                   tunnelInfo, lastProbe, spawned, lateOutput, dropped>>
    /\ UNCHANGED <<inv, saved, outputs, failedMsg, exitCode, exitStatus, prComment,
                   options>>
    /\ UNCHANGED <<envVars, cleanupVars>>
    /\ UNCHANGED <<instVars, prVars>>

\* tunnel-verify.ts:86-89, 100-106: the RetryError is caught and logged as a
\* warning, verifyTunnelReachability returns false, and waitForTunnelReady turns
\* false into the 'not reachable' error, which reaches the catch block of run()
VerifyThrow ==
    /\ rpc = "thrown"
    /\ site = "verify"
    /\ verifyState' = "failed"
    /\ isReachable' = "false"
    /\ warnings' = Append(warnings, MsgVerifyFailed)
    /\ RetryLeave
    /\ now' = now
    /\ RunCatch(ErrNotReachable)
    /\ UNCHANGED <<childPid, sink, handlers, tickQueued, unrefd, logReads, sigProbes,
                   absentSeen, wftState, httpProbes, returned,
                   tunnelInfo, lastProbe, spawned, lateOutput, dropped>>
    /\ UNCHANGED <<inv, saved, exitStatus, prComment, options>>
    /\ UNCHANGED <<envVars, cleanupVars>>
    /\ UNCHANGED <<instVars, prVars>>

\* tunnel.ts:109-131: the close has completed; the re-attachment of debug-only
\* handlers is queued with process.nextTick, the child is unref'd and the
\* TunnelResult is returned
CtClose ==
    /\ pc = "close"
    /\ sink' = "closed"
    /\ tickQueued' = TRUE
    /\ unrefd' = TRUE
    /\ returned' = TRUE
    /\ pc' = "tunnel_created"
    /\ UNCHANGED <<childPid, handlers, logReads, sigProbes, absentSeen, wftState,
                   httpProbes, verifyState, tunnelInfo, lastProbe,
                   spawned, isReachable, warnings, lateOutput, dropped>>
    /\ UNCHANGED <<inv, saved, outputs, failedMsg, exitCode, exitStatus, prComment, options>>
    /\ UNCHANGED <<retryVars, envVars, cleanupVars>>
    /\ UNCHANGED <<instVars, prVars>>

\* tunnel.ts:113-121: the queued callback runs once the action's code has yielded
\* to the event loop (run() awaits the PR comment request)
NextTick ==
    /\ tickQueued
    /\ pc = "comment"
    /\ exitStatus = -1
    /\ tickQueued' = FALSE
    /\ handlers' = "debug"
    /\ UNCHANGED <<childPid, sink, unrefd, logReads, sigProbes, absentSeen, wftState,
                   httpProbes, verifyState, returned,
                   tunnelInfo, lastProbe,
                   spawned, isReachable, warnings, lateOutput, dropped>>
    /\ UNCHANGED <<retryVars, envVars, cleanupVars, actionVars>>
    /\ UNCHANGED <<instVars, prVars>>

(***************************************************************************)
(* main.ts: run() after createTunnel                                       *)
(***************************************************************************)

\* main.ts (index.test.ts:173-174): save the state for the post-action
SaveTunnelState ==
    saved' = [saved EXCEPT !.tunnelPid = toString(childPid), !.tunnelLogPath = LogPath]

\* main.ts (index.test.ts:147-174): createTunnel resolved; set the outputs, then
\* post the PR comment when asked to on a pull_request event (the condition of
\* line 160), else save the state
RunOutputs ==
    /\ pc = "tunnel_created"
    /\ outputs' = [status |-> "running", url |-> tunnelInfo.url,
                   hostname |-> tunnelInfo.hostname]
    /\ \E asked \in BOOLEAN :
          /\ prComment' = asked
          /\ IF asked
             THEN pc' = "comment" /\ saved' = saved
             ELSE pc' = "run_done" /\ SaveTunnelState
    /\ UNCHANGED <<inv, failedMsg, exitCode, exitStatus, options>>
    /\ UNCHANGED <<retryVars, envVars, cleanupVars, tunnelVars>>
    /\ UNCHANGED <<instVars, prVars>>

RunCommentFailsRun ==
    /\ pc = "comment"
    /\ ~tickQueued
    /\ \E posted \in BOOLEAN :
          IF posted
          THEN /\ warnings' = warnings
               /\ SaveTunnelState
               /\ pc' = "run_done"
               /\ UNCHANGED <<outputs, failedMsg, exitCode>>
          ELSE /\ warnings' = Append(warnings, MsgCommentFailed)
               /\ saved' = saved
               /\ RunCatch(MsgCommentFailed)
    /\ UNCHANGED <<inv, exitStatus, prComment, options>>
    /\ UNCHANGED <<childPid, sink, handlers, tickQueued, unrefd, logReads, sigProbes,
                   absentSeen, wftState, httpProbes, verifyState, returned, tunnelInfo,
                   lastProbe, spawned, isReachable, lateOutput, dropped>>
    /\ UNCHANGED <<retryVars, envVars, cleanupVars>>
    /\ UNCHANGED <<instVars, prVars>>

\* main.ts (index.test.ts:160-174): updatePRComment resolved or rejected (a
\* rejection is only a warning); save the state
RunComment ==
    /\ pc = "comment"
    /\ ~tickQueued
    /\ \E posted \in BOOLEAN :
          warnings' = IF posted THEN warnings ELSE Append(warnings, MsgCommentFailed)
    /\ SaveTunnelState
    /\ pc' = "run_done"
    /\ UNCHANGED <<inv, outputs, failedMsg, exitCode, exitStatus, prComment, options>>
    /\ UNCHANGED <<childPid, sink, handlers, tickQueued, unrefd, logReads, sigProbes,
                   absentSeen, wftState, httpProbes, verifyState, returned, tunnelInfo,
                   lastProbe, spawned, isReachable, lateOutput, dropped>>
    /\ UNCHANGED <<retryVars, envVars, cleanupVars>>
    /\ UNCHANGED <<instVars, prVars>>

(***************************************************************************)
(* index.ts: the entry point                                               *)
(***************************************************************************)

\* process.exit(code): the process ends with the code given, whatever
\* process.exitCode holds
processExit(code) == code

EntryPointKeepsFlag ==
    /\ pc = "entry"
    /\ IF saved.isPost # ""
       THEN /\ pc' = "cleanup"
            /\ cpc' = "start"
            /\ saved' = saved
       ELSE /\ pc' = "run"
            /\ cpc' = cpc
            /\ saved' = saved
    /\ UNCHANGED <<inv, outputs, failedMsg, exitCode, exitStatus, prComment, options>>
    /\ UNCHANGED <<stateThrows, unlinkFails, clPid, clLogPath, killCalls, killTimes, clLog,
                   unlinks, clResult>>
    /\ UNCHANGED <<retryVars, envVars, tunnelVars>>
    /\ UNCHANGED <<instVars, prVars>>

\* index.ts (part_001:135-145): runAction
EntryPoint ==
    /\ pc = "entry"
    /\ IF saved.isPost # ""
       THEN /\ pc' = "cleanup"
            /\ cpc' = "start"
            /\ saved' = saved
       ELSE /\ pc' = "run"
            /\ cpc' = cpc
            /\ saved' = [saved EXCEPT !.isPost = "true"]
    /\ UNCHANGED <<inv, outputs, failedMsg, exitCode, exitStatus, prComment, options>>
    /\ UNCHANGED <<stateThrows, unlinkFails, clPid, clLogPath, killCalls, killTimes, clLog,
                   unlinks, clResult>>
    /\ UNCHANGED <<retryVars, envVars, tunnelVars>>
    /\ UNCHANGED <<instVars, prVars>>

\* index.ts (part_001:148-156): runAction() settled; .then exits with 0, .catch
\* with 1. run() has no path that rejects; cleanup() rejects only as clResult says
EntryExit ==
    /\ exitStatus = -1
    /\ \/ pc = "run_done"
       \/ pc = "cleanup" /\ cpc = "done"
    /\ exitStatus' = IF pc = "cleanup" /\ clResult = "rejected"
                     THEN processExit(1)
                     ELSE processExit(0)
    /\ UNCHANGED <<inv, pc, saved, outputs, failedMsg, exitCode, prComment, options>>
    /\ UNCHANGED <<retryVars, envVars, cleanupVars, tunnelVars>>
    /\ UNCHANGED <<instVars, prVars>>

\* The runner starts the post invocation of the action after the main one ended:
\* a new process, with the saved state; time is counted from its start
PostStart ==
    /\ inv = "main"
    /\ exitStatus # -1
    /\ inv' = "post"
    /\ pc' = "entry"
    /\ exitCode' = 0
    /\ exitStatus' = -1
    /\ now' = 0
    /\ UNCHANGED <<saved, outputs, failedMsg, prComment, options>>
    /\ UNCHANGED <<rpc, site, opts, startTime, attempts, lastError, retryResult,
                   retryError, fnCalls, delayCalls, debugLog, delayArgs, currentDelay,
                   fnOutcome, clockByDelay>>
    /\ UNCHANGED <<envVars, cleanupVars, tunnelVars>>
    /\ UNCHANGED <<instVars, prVars>>

Init ==
    /\ RetryIdle
    /\ procAlive = FALSE
    /\ procPerm = TRUE
    /\ logFile = NoFile
    /\ cpc = "idle"
    /\ stateThrows = FALSE
    /\ unlinkFails = FALSE
    /\ CleanupIdle
    /\ TunnelIdle
    /\ inv = "main"
    /\ pc = "entry"
    /\ saved = [isPost |-> "", tunnelPid |-> NoPid, tunnelLogPath |-> ""]
    /\ outputs = NoOutputs
    /\ failedMsg = ""
    /\ exitCode = 0
    /\ exitStatus = -1
    /\ prComment = FALSE
    /\ options = DefaultOptions
    /\ InstIdle
    /\ PrIdle

Next ==
    \/ EntryPoint
    \/ RunValidate
    \/ RunInstall
    \/ CtOpen
    \/ CtSpawn
    \/ ChildOutput
    \/ ProcExits
    \/ WftCall
    \/ RetryCatch
    \/ RetryDelay
    \/ WftReturn
    \/ WftThrow
    \/ VerifyCall
    \/ VerifyReturn
    \/ VerifyThrow
    \/ CtClose
    \/ NextTick
    \/ RunOutputs
    \/ RunComment
    \/ EntryExit
    \/ PostStart
    \/ cleanup

Spec == Init /\ [][Next]_vars

(***************************************************************************)
(* Properties of cleanup(), checked under SpecCleanup                      *)
(***************************************************************************)

\* The four terminal outcomes of the process-handling stage, as logged
TerminalMsgs == {MsgAlreadyStopped, MsgGraceful, MsgAfterSigterm, MsgForceKill}
IsTerminalMsg(m) == m \in TerminalMsgs
TerminalLog == SelectSeq(clLog, IsTerminalMsg)

\* The signals of the process.kill calls made so far, in order
SignalOf(i) == killCalls[i][1]
Delivered(i) == killCalls[i][2]
Sent(signal) == Cardinality({i \in 1..Len(killCalls) : SignalOf(i) = signal})
AllDelivered == \A i \in 1..Len(killCalls) : Delivered(i)

\* C4: cleanup() always resolves and never rejects: whatever the persisted state,
\* whatever each probe and each signal delivery does, when the state read throws
\* and when the deletion of the log fails; it is never stuck before it is done.
C4_CleanupNeverRaises ==
    /\ clResult # "rejected"
    /\ (cpc = "done") = (clResult = "resolved")
    /\ (cpc # "done" => ENABLED cleanup)

C4_Witness ==
    cpc = "done" /\ clResult = "resolved" /\ stateThrows

C6_GracefulAfterSigint ==
    (Len(killCalls) >= 3 /\ Delivered(1) /\ SignalOf(3) = "0" /\ ~Delivered(3)) =>
        /\ Sent("SIGINT") = 1
        /\ Sent("SIGTERM") = 0
        /\ Sent("SIGKILL") = 0
        /\ Len(killCalls) = 3
        /\ TerminalLog = <<MsgGraceful>>

C6_Witness ==
    /\ cpc = "done"
    /\ killCalls = << <<"0", TRUE>>, <<"SIGINT", TRUE>>, <<"0", FALSE>> >>

\* C7: a signal is sent only when a process id was recorded and the first probe
\* succeeded; with no recorded id there is no process.kill call at all; when the
\* first probe fails it is the only call, 'Tunnel process already stopped' is
\* logged and cleanup is at the log cleanup (or past it).
C7_NoSignalWithoutProbe ==
    /\ (Sent("SIGINT") + Sent("SIGTERM") + Sent("SIGKILL") > 0 =>
            clPid # NoPid /\ killCalls[1] = <<"0", TRUE>>)
    /\ ((cpc # "start" /\ clPid = NoPid) => killCalls = <<>>)
    /\ (cpc = "start" => killCalls = <<>>)
    /\ ((Len(killCalls) >= 1 /\ ~Delivered(1)) =>
            /\ killCalls = << <<"0", FALSE>> >>
            /\ TerminalLog = <<MsgAlreadyStopped>>
            /\ cpc \in {"unlink", "done"})

C7_Witness ==
    cpc = "done" /\ killCalls = << <<"0", FALSE>> >> /\ clPid = ThePid /\ procAlive

\* C8: after the process-handling stage, on each of its paths, the deletion of the
\* log file is attempted exactly once when a log path was recorded and never when
\* none was; it is not attempted before that stage is over; a deletion that fails
\* is swallowed: cleanup still logs its completion and resolves.
C8_LogDeletedOnce ==
    /\ unlinks <= 1
    /\ (unlinks > 0 => cpc = "done")
    /\ (cpc = "unlink" => ENABLED CleanupUnlink)
    /\ ((cpc = "done" /\ ~stateThrows) =>
            /\ unlinks = (IF clLogPath # "" THEN 1 ELSE 0)
            /\ clLog[Len(clLog)] = MsgCompleted
            /\ clResult = "resolved")

C8_Witness ==
    /\ cpc = "done"
    /\ killCalls = << <<"0", TRUE>>, <<"SIGINT", FALSE>> >>
    /\ unlinks = 1
    /\ \E i \in 1..Len(clLog) : clLog[i] = MsgUnlinkFailed

(***************************************************************************)
(* Properties of retry(), checked under SpecRetry                          *)
(***************************************************************************)

\* C10: when fn fails on every attempt and maxRetries = n >= 1 is what stops the
\* loop (the elapsed time is below the timeout at each failure), retry has called
\* fn exactly n times and the delay function exactly n - 1 times when it throws
\* the RetryError.
C10_AttemptBound ==
    (rpc = "thrown" /\ opts.maxRetries # Undefined /\ retryError.reason = "retries"
        /\ opts.maxRetries[1] >= 1) =>
        /\ fnCalls = opts.maxRetries[1]
        /\ delayCalls = opts.maxRetries[1] - 1
        /\ now - startTime < opts.timeout

C10_Witness ==
    /\ rpc = "thrown"
    /\ opts.maxRetries = Some(3)
    /\ retryError.reason = "retries"
    /\ fnCalls = 3
    /\ delayCalls = 2
    /\ opts.delay = 2

\* The debug lines of one kind written so far
IsFailedLine(l) == l = "failed"
IsSucceededLine(l) == l = "succeeded"
FailedLines == Len(SelectSeq(debugLog, IsFailedLine))
SucceededLines == Len(SelectSeq(debugLog, IsSucceededLine))

\* The smallest integer not below a / b (b > 0)
CeilDiv(a, b) == (a + b - 1) \div b

\* C11: when retry returns, it returns the value of the latest call of fn (the
\* first that did not fail), fn was called once more than the delay function
\* (k failures: k + 1 calls of fn, k delays), every delay call received the
\* configured delay, and retry makes no further call of fn or of the delay.
C11_FirstSuccessReturned ==
    rpc = "returned" =>
        /\ retryResult = fnOutcome
        /\ fnCalls = delayCalls + 1
        /\ attempts = fnCalls
        /\ delayArgs = [i \in 1..delayCalls |-> opts.delay]
        /\ ~ENABLED NextRetry

C11_Witness ==
    /\ rpc = "returned"
    /\ retryResult = "success"
    /\ fnCalls = 3
    /\ delayArgs = <<2, 2>>

\* C12: retry calls fn at least once before it returns or throws, and with a
\* timeout of zero or less it calls fn exactly once: after the failure of that
\* call it throws the RetryError at once, with no delay call and no second call,
\* whatever the clock reads and whatever maxRetries is.
C12_SingleAttemptOnNonPositiveTimeout ==
    /\ (rpc \in {"returned", "thrown"} => fnCalls >= 1)
    /\ (opts.timeout <= 0 =>
            /\ fnCalls <= 1
            /\ delayCalls = 0
            /\ rpc \in {"call", "catch", "returned", "thrown"})

\* C13: the reason of the RetryError names the bound that stopped the loop:
\* 'timeout after <timeout>ms' when the elapsed time had reached the timeout at
\* the final failure, '<maxRetries> retries' when the attempt count had reached
\* maxRetries while the elapsed time was below the timeout.
C13_ReasonNamesBound ==
    rpc = "thrown" =>
        /\ (now - startTime >= opts.timeout =>
                retryError.reason = "timeout" /\ retryError.arg = opts.timeout)
        /\ (now - startTime < opts.timeout =>
                /\ retryError.reason = "retries"
                /\ opts.maxRetries # Undefined
                /\ retryError.arg = opts.maxRetries[1]
                /\ attempts >= opts.maxRetries[1])

C13_Witness ==
    /\ rpc = "thrown"
    /\ retryError.reason = "retries"
    /\ retryError.arg = 3
    /\ now - startTime > 0
    /\ now - startTime < opts.timeout

\* C14: the RetryError thrown on exhaustion carries as lastError the failure of
\* the final call of fn, not of an earlier one, and its message ends with that
\* failure's message.
C14_LastErrorIsFinalFailure ==
    rpc = "thrown" =>
        /\ retryError.lastError = fnOutcome
        /\ retryError.cause = fnOutcome

C14_Witness ==
    /\ rpc = "thrown"
    /\ fnCalls = 3
    /\ fnOutcome = "fail 2"
    /\ retryError.lastError = "fail 2"

\* C16: with no maxRetries, a timeout T > 0, a delay d > 0, a clock that moves
\* only by d in each delay call and an fn that fails every time, retry calls fn
\* exactly ceil(T / d) + 1 times (the delay function ceil(T / d) times) and then
\* throws the RetryError with the timeout reason.
C16_TimeoutAttemptCount ==
    (/\ rpc = "thrown"
     /\ opts.maxRetries = Undefined
     /\ opts.timeout > 0
     /\ opts.delay > 0
     /\ clockByDelay) =>
        /\ fnCalls = CeilDiv(opts.timeout, opts.delay) + 1
        /\ delayCalls = CeilDiv(opts.timeout, opts.delay)
        /\ now - startTime = delayCalls * opts.delay
        /\ retryError.reason = "timeout"

C16_Witness ==
    /\ rpc = "thrown"
    /\ opts.maxRetries = Undefined
    /\ opts.timeout = 5
    /\ opts.delay = 2
    /\ clockByDelay
    /\ fnCalls = 4
    /\ now - startTime = 6

\* C17 as stated: with silent = false, a finished run of retry has written one
\* failure line for each failed call of fn, whether it returned or threw, and
\* one success line exactly when it returned after more than one call.
C17_AsStated ==
    (~opts.silent /\ rpc \in {"returned", "thrown"}) =>
        /\ FailedLines = (IF rpc = "returned" THEN fnCalls - 1 ELSE fnCalls)
        /\ SucceededLines = (IF rpc = "returned" /\ fnCalls > 1 THEN 1 ELSE 0)

\* C17, amended: with silent = false, retry writes one failure line for each
\* failed call of fn that is followed by a retry, none for the failure that
\* ends the loop: a run with n failed calls writes n failure lines when it
\* returns and n - 1 when it throws; it writes one success line exactly when it
\* returns after more than one call; the lines are in the order of the calls.
C17_DiagnosticsPerRetry ==
    ~opts.silent =>
        /\ FailedLines = delayCalls + (IF rpc = "delay" THEN 1 ELSE 0)
        /\ (rpc = "returned" =>
                /\ FailedLines = fnCalls - 1
                /\ SucceededLines = (IF fnCalls > 1 THEN 1 ELSE 0))
        /\ (rpc = "thrown" => FailedLines = fnCalls - 1 /\ SucceededLines = 0)
        /\ (rpc \notin {"returned"} => SucceededLines = 0)
        /\ (SucceededLines = 1 => debugLog[Len(debugLog)] = "succeeded")

C17_Witness ==
    /\ rpc = "thrown"
    /\ ~opts.silent
    /\ fnCalls = 3
    /\ debugLog = <<"failed", "failed">>

(***************************************************************************)
(* Properties of retryWithBackoff(), checked under SpecBackoff             *)
(***************************************************************************)

\* C15: for every initial delay D (0 and values above 30000 included) the n-th
\* delay retryWithBackoff passes to the delay function is min(D * 2^(n-1), 30000):
\* D, 2D, 4D, ..., and no delay exceeds 30000 ms.
C15_BackoffSequence ==
    \A n \in 1..Len(delayArgs) :
        /\ delayArgs[n] = Min(opts.delay * 2^(n - 1), BackoffCap)
        /\ delayArgs[n] <= BackoffCap
(***************************************************************************)
(* Properties of waitForTunnel(), checked under SpecExtract                *)
(***************************************************************************)

\* A hostname of the form <label(.label)*>.loclx.io: non-empty labels of letters,
\* digits and hyphens, joined by single dots, then .loclx.io
WellFormed(h) ==
    /\ Len(h) > Len(Suffix)
    /\ SubSeq(h, Len(h) - Len(Suffix) + 1, Len(h)) = Suffix
    /\ \A k \in 1..(Len(h) - Len(Suffix)) :
           /\ h[k] \in HostChars
           /\ (h[k] = "." => k > 1 /\ h[k - 1] # ".")
    /\ h[Len(h) - Len(Suffix)] # "."

ContainsHostname(s) ==
    \E i \in 1..Len(s) : \E e \in i..Len(s) : WellFormed(SubSeq(s, i, e))

\* The spans <<i, e>> of the content that the pattern matches as a whole: one or
\* more characters of the class, then the literal
Spans(s) ==
    {ie \in (1..Len(s)) \X (1..Len(s)) :
        /\ ie[2] - ie[1] + 1 > Len(Suffix)
        /\ SubSeq(s, ie[2] - Len(Suffix) + 1, ie[2]) = Suffix
        /\ \A k \in ie[1]..(ie[2] - Len(Suffix)) : s[k] \in HostChars}

\* The leftmost match: of the spans that start first, the longest
LeftmostMatch(s) ==
    LET first == Least({ie[1] : ie \in Spans(s)})
        last == Greatest({ie[2] : ie \in {x \in Spans(s) : x[1] = first}})
    IN SubSeq(s, first, last)

C1_FailsImmediatelyOnExit ==
    absentSeen => ~(site = "wft" /\ rpc \in {"delay", "call"})

\* C2: when a creation step of run() failed (core.setFailed was called), the main
\* invocation's process ends with a non-zero exit status.
C2_FailureExitsNonZero ==
    (inv = "main" /\ exitStatus # -1 /\ failedMsg # "") => exitStatus # 0

\* C3: the pid of every process createTunnel spawned is in the saved state when
\* the main invocation ends, and the cleanup of the post invocation has read it
\* and has probed or signalled that process when it is done.
C3_SpawnedPidReachesCleanup ==
    /\ (inv = "main" /\ exitStatus # -1 /\ childPid # 0) =>
            saved.tunnelPid = toString(childPid)
    /\ (inv = "post" /\ cpc = "done" /\ childPid # 0) =>
            clPid = toString(childPid) /\ Len(killCalls) > 0

\* C9 as stated: spawn before the first log read, extraction over before the first
\* reachability probe, verification over before the sink is closed, and the
\* result returned only after the sink is closed and the output redirected (the
\* debug-only handlers attached).
C9_AsStated ==
    /\ (logReads > 0 => childPid # 0)
    /\ (httpProbes > 0 => wftState = "ok")
    /\ (sink = "closed" => verifyState = "ok")
    /\ (returned => sink = "closed" /\ handlers = "debug")

\* C9, amended: the stages of createTunnel occur in order and do not overlap: a
\* log read happens only after the spawn and before extraction is over and before
\* any reachability probe; a reachability probe only after extraction succeeded,
\* while the sink is open; the sink is closed only after verification succeeded;
\* the result is returned only once the sink is closed and the re-attachment of
\* the debug-only handlers is queued; that re-attachment runs after the return.
C9_StageOrder ==
    [][ /\ (logReads' # logReads =>
                childPid # 0 /\ wftState = "no" /\ httpProbes = 0 /\ sink = "open")
        /\ (httpProbes' # httpProbes =>
                wftState = "ok" /\ verifyState = "no" /\ logReads' = logReads
                /\ sink = "open")
        /\ (wftState' # wftState => httpProbes = 0)
        /\ ((sink = "open" /\ sink' = "closed") => verifyState = "ok" /\ ~returned)
        /\ ((~returned /\ returned') => sink' = "closed" /\ tickQueued')
        /\ ((handlers # "debug" /\ handlers' = "debug") => returned /\ sink = "closed")
      ]_vars

C9_Witness ==
    /\ returned
    /\ handlers = "debug"
    /\ sink = "closed"
    /\ logReads > 1
    /\ httpProbes > 1

\* C19: when waitForTunnel fails, the error that reaches run() is the original
\* 'Tunnel process exited unexpectedly' if a signal-0 probe of the extraction
\* reported the process absent, and otherwise 'Timeout waiting for tunnel to
\* establish after 30000ms'; when the log never matched and every probe found the
\* process, the failure comes after the attempts of the whole timeout and is the
\* timeout error, never the RetryError.
C19_WaitFailure ==
    wftState = "failed" =>
        /\ failedMsg = (IF absentSeen THEN ErrExited ELSE ErrWaitTimeout)
        /\ outputs.status = "failed"
        /\ (~absentSeen =>
                /\ logReads = WaitTimeout \div WaitDelay + 1
                /\ sigProbes = logReads)

C19_Witness ==
    /\ wftState = "failed"
    /\ ~absentSeen
    /\ procAlive
    /\ failedMsg = ErrWaitTimeout
    /\ hostnameMatch(logFile) = <<>>

\* C20: when the HEAD request of a probe is answered with a status in [200, 399),
\* the probe makes no further request (no GET), the fn returns true and retry
\* returns with it: verifyTunnelReachability makes no probe after that one (one
\* HEAD request per attempt, so exactly one when this is the first attempt).
C20_ReachableAfterOneProbe ==
    /\ (lastProbe.status >= 200 /\ lastProbe.status < 399) =>
            /\ rpc = "returned"
            /\ site = "verify"
            /\ retryResult = "true"
            /\ lastProbe.gets = 0
            /\ httpProbes = fnCalls
            /\ ~ENABLED VerifyCall
    /\ (verifyState = "ok" => ~ENABLED VerifyCall)

C20_Witness ==
    /\ rpc = "returned"
    /\ site = "verify"
    /\ lastProbe = [status |-> 302, gets |-> 0]
    /\ httpProbes = 1

\* The messages of the errors a probe of verifyTunnelReachability throws
ProbeErrors == {ErrMarker404, ErrLocalXpose, ErrStatus, ErrAbort, ErrNetwork}

\* C21: verifyTunnelReachability has returned exactly when the verification is
\* over, and it ends in one of two ways: retry returned (the latest probe
\* succeeded) and it returns true without a warning, or retry threw after
\* exhausting its bound (whatever the probes failed with: the 404 marker, an
\* abort, a network error) and it logs one warning and returns false; its caller
\* never sees the error of a probe, run() records the 'not reachable' error.
C21_VerifyNeverPropagates ==
    /\ []((isReachable = "none") = (verifyState = "no"))
    /\ []((failedMsg \notin ProbeErrors) /\ (isReachable = "true" => failedMsg = ""))
    /\ [][(site = "verify" /\ verifyState' # verifyState) =>
            /\ rpc \in {"returned", "thrown"}
            /\ (rpc = "returned" =>
                    /\ fnOutcome = "true"
                    /\ probe(lastProbe.status, "other") = "ok"
                    /\ isReachable' = "true"
                    /\ warnings' = warnings)
            /\ (rpc = "thrown" =>
                    /\ fnOutcome \in ProbeErrors
                    /\ retryError.lastError = fnOutcome
                    /\ isReachable' = "false"
                    /\ warnings' = Append(warnings, MsgVerifyFailed)
                    /\ failedMsg' = ErrNotReachable)
         ]_vars

C21_Witness ==
    /\ isReachable = "false"
    /\ httpProbes = VerifyMaxRetries
    /\ lastProbe = [status |-> 404, gets |-> 1]
    /\ warnings = <<MsgVerifyFailed>>
    /\ failedMsg = ErrNotReachable

\* C22: waitForTunnelReady raises the 'not reachable' error exactly when
\* verifyTunnelReachability returned false and completes normally exactly when
\* it returned true; createTunnel returns a result only after a verification
\* that returned true, so never for a url whose verification returned false.
C22_RaisesIffUnreachable ==
    /\ (failedMsg = ErrNotReachable) = (isReachable = "false")
    /\ (verifyState = "failed") = (isReachable = "false")
    /\ (verifyState = "ok") = (isReachable = "true")
    /\ (returned => isReachable = "true")
    /\ (isReachable = "false" => outputs.url = <<>> /\ outputs.status # "running")

C22_Witness ==
    /\ isReachable = "false"
    /\ failedMsg = ErrNotReachable
    /\ ~returned
    /\ tunnelInfo.url = urlOf(hostnameMatch(HostChunk))
    /\ pc = "run_done"

\* C23: every attempt of verifyTunnelReachability's fn is over within the 5 s of
\* its abort timer, the follow-up GET of a 404, 400 or 502 included, and an
\* attempt that lasts the 5 s has failed with 'Request timeout - tunnel not
\* responding'.
C23_AttemptWithinSubTimeout ==
    [][httpProbes' = httpProbes + 1 =>
          /\ now' - now <= ProbeAbortAfter
          /\ (now' - now = ProbeAbortAfter => rpc' = "catch" /\ lastError' = ErrAbort)
      ]_vars

\* C24: when spawn gave no process id, createTunnel has failed with 'Failed to
\* start tunnel process' in the same step: run() has recorded that failure, no
\* output handler was attached, no log read, no liveness probe and no
\* reachability probe was made then or is made later, and no result is returned.
C24_NoPidFailsAtOnce ==
    /\ (spawned # NoSpawn /\ childPid = 0) =>
            /\ failedMsg = ErrNoPid
            /\ outputs.status = "failed"
            /\ pc # "wft"
            /\ rpc = "idle"
            /\ handlers = "none"
            /\ ~tickQueued
            /\ logReads = 0
            /\ sigProbes = 0
            /\ httpProbes = 0
            /\ wftState = "no"
            /\ verifyState = "no"
            /\ ~returned
            /\ tunnelInfo = NoTunnelInfo
    /\ (failedMsg = ErrNoPid => spawned # NoSpawn /\ childPid = 0)

C24_Witness ==
    /\ spawned = Spawned(options)
    /\ childPid = 0
    /\ failedMsg = ErrNoPid
    /\ inv = "post"
    /\ cpc = "done"

(***************************************************************************)
(* Properties of the spawn, checked under SpecSpawn                        *)
(***************************************************************************)

\* The pieces of the arguments and of the logged command line
ArgPieces(a) == UNION {{a[i][j] : j \in 1..Len(a[i])} : i \in 1..Len(a)}
LinePieces(l) == {l[i] : i \in 1..Len(l)}

\* C25: whatever the options, no argument given to spawn and no piece of the
\* logged command line is the auth token; the child gets the token in
\* LX_ACCESS_TOKEN of its environment; with any other token in the same
\* options the argument list and the logged command line are the same.
C25_TokenOnlyInEnvironment ==
    spawned # NoSpawn =>
        /\ (options.token # "" =>
                /\ options.token \notin ArgPieces(spawned.args)
                /\ options.token \notin LinePieces(spawned.cmdLine)
                /\ spawned.env = options.token)
        /\ \A t \in AuthTokens :
                /\ Spawned([options EXCEPT !.token = t]).args = spawned.args
                /\ Spawned([options EXCEPT !.token = t]).cmdLine = spawned.cmdLine

C25_Witness ==
    /\ childPid = ChildPid
    /\ options.token = "tok2"
    /\ spawned.env = "tok2"
    /\ spawned.args = << <<"tunnel">>, <<"tcp">>, <<"--to=", "8080">>,
                         <<"--region=", "us">>, <<"--subdomain=", "myapp">> >>
    /\ warnings = <<MsgTypeWarning>>

\* createTunnel is over: it returned its result, or threw into the catch of run()
CreateTunnelOver ==
    inv = "post" \/ pc \in {"tunnel_created", "comment", "run_done"}

\* C26: on every path out of createTunnel that opened the log sink (the result
\* returned, no process id, the extraction failed, the verification failed) the
\* sink has been closed when createTunnel is over.
C26_SinkClosedOnEveryExit ==
    (CreateTunnelOver /\ sink # "none") => sink = "closed"

\* C27: no write is issued to the log sink after its close, whenever the child
\* writes: the sink is closed only with the capture handlers removed, they are
\* never attached again, the log file does not grow once the sink is closed, and
\* the output handled after the close went to core.debug only.
C27_NoWriteAfterClose ==
    /\ [](lateOutput # "sink")
    /\ [](sink = "closed" => handlers # "capture")
    /\ [][(sink = "closed" /\ inv = "main") => logFile' = logFile]_vars

C27_Witness ==
    /\ sink = "closed"
    /\ handlers = "debug"
    /\ lateOutput = "debug"
    /\ procAlive
    /\ logFile = HostChunk

(***************************************************************************)
(* Properties of invocations side by side, checked under SpecInstances     *)
(***************************************************************************)

\* The hostname in the line the child of invocation i writes
HostnameOf(i) == hostnameMatch(HostChunkOf(i))

\* C28: two createTunnel invocations that have opened their logs use different
\* log paths, also when both read the same clock value, so the file of one is
\* not truncated or written by the other and each invocation extracts nothing
\* but the hostname its own child wrote.
C28_DistinctLogLocations ==
    /\ \A i, j \in Instances :
          (i # j /\ instPath[i] # NoPath /\ instPath[j] # NoPath) =>
              instPath[i] # instPath[j]
    /\ \A i \in Instances : instResult[i] \in {<<>>, HostnameOf(i)}

\* run() is over: the main invocation is past run(), or the post invocation runs
RunOver == inv = "post" \/ pc = "run_done"

\* A warning with this message was logged
Warned(msg) == \E i \in 1..Len(warnings) : warnings[i] = msg

\* C29: when createTunnel returned its result, run() has saved, when it is over,
\* the decimal text of the child's pid under tunnelPid and the log path under
\* tunnelLogPath, also when the PR comment could not be posted: that failure is
\* a warning only, the status stays 'running' and core.setFailed is not called.
C29_StateSavedAfterSuccess ==
    /\ (returned /\ RunOver) =>
            /\ saved.tunnelPid = ThePid
            /\ parseInt(saved.tunnelPid) = childPid
            /\ saved.tunnelLogPath = LogPath
    /\ Warned(MsgCommentFailed) =>
            /\ returned
            /\ prComment
            /\ outputs.status = "running"
            /\ failedMsg = ""
            /\ exitCode = 0

C29_Witness ==
    /\ inv = "main"
    /\ pc = "run_done"
    /\ Warned(MsgCommentFailed)
    /\ saved.tunnelPid = ThePid
    /\ saved.tunnelLogPath = LogPath
    /\ outputs.status = "running"

\* The messages of the failures of the creation steps
CreationErrors ==
    {"Invalid port", "Failed to download LocalXpose", "open failed", ErrNoPid,
     ErrExited, ErrWaitTimeout, ErrNotReachable}

\* C30: a run that is over has either failed in a creation step, and then the
\* status is 'failed', core.setFailed got the message of the error of that step
\* and no url or hostname is set, or createTunnel returned, and then the status
\* is 'running' with the url and the hostname of the tunnel and core.setFailed
\* was not called; the status is 'running' only after createTunnel returned;
\* run() always gets to its end, whatever fails.
C30_OutcomeOfRun ==
    /\ RunOver =>
          IF returned
          THEN /\ outputs = [status |-> "running", url |-> tunnelInfo.url,
                             hostname |-> tunnelInfo.hostname]
               /\ tunnelInfo.url = urlOf(tunnelInfo.hostname)
               /\ tunnelInfo.hostname # <<>>
               /\ failedMsg = ""
          ELSE /\ outputs = [status |-> "failed", url |-> <<>>, hostname |-> <<>>]
               /\ failedMsg \in CreationErrors
               /\ (inv = "main" => exitCode = 1)
    /\ (outputs.status = "running" => returned)
    /\ (failedMsg # "" => RunOver /\ outputs.status = "failed")
    /\ (spawned # NoSpawn /\ childPid = 0 => failedMsg = ErrNoPid)
    /\ (wftState = "failed" => failedMsg \in {ErrExited, ErrWaitTimeout})
    /\ (verifyState = "failed" => failedMsg = ErrNotReachable)
    /\ ((inv = "main" /\ exitStatus = -1 /\ ~RunOver) => ENABLED Next)

C30_Witness ==
    /\ inv = "main"
    /\ pc = "run_done"
    /\ verifyState = "failed"
    /\ outputs.status = "failed"
    /\ failedMsg = ErrNotReachable
    /\ exitCode = 1

\* run() was called and is over: it set the status output on each of its paths
RunCompleted == outputs.status \in {"running", "failed"}

\* C31: an invocation of the entry point calls cleanup exactly when the isPost
\* state is set when it starts, and otherwise saves isPost = 'true' and calls
\* run; it calls nothing else and nothing twice. In one job the main invocation
\* calls run and not cleanup, the post invocation calls cleanup and not run, and
\* the post invocation starts only after the main one ended, with run over, also
\* when run failed; after the post invocation no further invocation starts.
C31_OneOfRunAndCleanup ==
    /\ [](pc = "entry" => (saved.isPost # "") = (inv = "post"))
    /\ [](inv = "main" => pc # "cleanup" /\ cpc = "idle" /\ clLog = <<>>)
    /\ [](inv = "post" => pc \in {"entry", "cleanup"} /\ RunCompleted)
    /\ []((inv = "post" /\ exitStatus # -1) =>
              cpc = "done" /\ ~ENABLED (EntryPoint \/ PostStart \/ cleanup \/ EntryExit))
    /\ [][ /\ (pc = "entry" /\ pc' # "entry") =>
                IF saved.isPost # ""
                THEN pc' = "cleanup" /\ cpc = "idle" /\ cpc' = "start" /\ saved' = saved
                ELSE pc' = "run" /\ saved' = [saved EXCEPT !.isPost = "true"]
                     /\ cpc' = cpc /\ ~RunCompleted
           /\ (pc' = "run" /\ pc # "run" => pc = "entry")
           /\ (pc' = "cleanup" /\ pc # "cleanup" => pc = "entry")
           /\ (cpc = "idle" /\ cpc' # "idle" => pc = "entry")
           /\ (cpc # "idle" => cpc' # "idle")
           /\ (RunCompleted /\ inv = "post" => outputs' = outputs /\ failedMsg' = failedMsg)
           /\ (pc' = "entry" /\ pc # "entry" =>
                    inv = "main" /\ inv' = "post" /\ exitStatus # -1 /\ RunCompleted)
           /\ (inv' # inv => pc' = "entry")
      ]_vars

C31_Witness ==
    /\ inv = "post"
    /\ exitStatus = 0
    /\ cpc = "done"
    /\ outputs.status = "failed"
    /\ failedMsg = ErrExited
    /\ saved.isPost = "true"

(***************************************************************************)
(* Further properties of cleanup(), checked under SpecCleanup              *)
(***************************************************************************)

\* The process.kill call at index k is the n-th signal-0 probe of cleanup
IsNthProbe(k, n) ==
    /\ SignalOf(k) = "0"
    /\ Cardinality({j \in 1..k : SignalOf(j) = "0"}) = n

\* A call with this signal precedes the call at index k by at least ms on the clock
After(k, signal, ms) ==
    \E i \in 1..(k - 1) : SignalOf(i) = signal /\ killTimes[k] - killTimes[i] >= ms

\* C32: the second liveness probe of cleanup is made no earlier than 2000 ms after
\* the SIGINT call and the third no earlier than 1000 ms after the SIGTERM call;
\* SIGTERM is sent no earlier than 2000 ms after SIGINT and SIGKILL no earlier
\* than 1000 ms after SIGTERM: no call follows SIGINT or SIGTERM before its dwell
\* has elapsed.
C32_DwellBeforeNextProbe ==
    /\ Len(killTimes) = Len(killCalls)
    /\ \A k \in 1..Len(killCalls) :
          /\ IsNthProbe(k, 2) => After(k, "SIGINT", DwellAfterSigint)
          /\ IsNthProbe(k, 3) => After(k, "SIGTERM", DwellAfterSigterm)
          /\ SignalOf(k) = "SIGTERM" => After(k, "SIGINT", DwellAfterSigint)
          /\ SignalOf(k) = "SIGKILL" => After(k, "SIGTERM", DwellAfterSigterm)
          /\ \A i \in 1..(k - 1) :
                /\ SignalOf(i) = "SIGINT" => killTimes[k] - killTimes[i] >= DwellAfterSigint
                /\ SignalOf(i) = "SIGTERM" => killTimes[k] - killTimes[i] >= DwellAfterSigterm

C32_Witness ==
    /\ cpc = "done"
    /\ Sent("SIGKILL") = 1
    /\ killTimes = <<0, 0, 2000, 2000, 3000, 3000>>

\* C34: whatever the process does (it may exit at any moment, the action may lack
\* the permission to signal it, the recorded id may be no number), cleanup sends
\* each of SIGINT, SIGTERM and SIGKILL at most once; SIGTERM only right after a
\* probe that succeeded, which follows the SIGINT that was delivered; SIGKILL
\* only right after a probe that succeeded, which follows the SIGTERM that was
\* delivered; it makes at most three probes, and no call at all after SIGKILL.
C34_EscalationOrder ==
    /\ Sent("SIGINT") <= 1
    /\ Sent("SIGTERM") <= 1
    /\ Sent("SIGKILL") <= 1
    /\ Sent("0") <= 3
    /\ \A k \in 1..Len(killCalls) :
          /\ SignalOf(k) = "SIGINT" => k = 2 /\ killCalls[1] = <<"0", TRUE>>
          /\ SignalOf(k) = "SIGTERM" =>
                /\ k = 4
                /\ killCalls[2] = <<"SIGINT", TRUE>>
                /\ killCalls[3] = <<"0", TRUE>>
          /\ SignalOf(k) = "SIGKILL" =>
                /\ k = 6
                /\ killCalls[4] = <<"SIGTERM", TRUE>>
                /\ killCalls[5] = <<"0", TRUE>>
                /\ Len(killCalls) = 6
          /\ (k < Len(killCalls) => Delivered(k))

C34_Witness ==
    /\ cpc = "done"
    /\ killCalls = << <<"0", TRUE>>, <<"SIGINT", TRUE>>, <<"0", TRUE>>,
                      <<"SIGTERM", TRUE>>, <<"0", FALSE>> >>
    /\ TerminalLog = <<MsgAfterSigterm>>

\* cleanup is past its process-handling stage
PastProcessStage == cpc \in {"unlink", "done"} /\ ~stateThrows

\* C35: when a process id was recorded, cleanup has logged, once it is past the
\* process-handling stage, exactly one of the four terminal outcomes, and none
\* before; without a recorded id it logs none; the force-kill warning is logged
\* exactly when the SIGKILL call was delivered without error.
C35_OneTerminalOutcome ==
    /\ Len(TerminalLog) <= 1
    /\ (PastProcessStage /\ clPid # NoPid) => Len(TerminalLog) = 1
    /\ (cpc \notin {"unlink", "done"} \/ clPid = NoPid) => TerminalLog = <<>>
    /\ (TerminalLog = <<MsgForceKill>>) =
            (Len(killCalls) = 6 /\ killCalls[6] = <<"SIGKILL", TRUE>>)

C35_Witness ==
    /\ cpc = "done"
    /\ clPid = ThePid
    /\ Len(killCalls) = 6
    /\ killCalls[6] = <<"SIGKILL", FALSE>>
    /\ TerminalLog = <<MsgAfterSigterm>>

(***************************************************************************)
(* Further properties of waitForTunnel(), checked under SpecExtract        *)
(***************************************************************************)

\* C36: an attempt of waitForTunnel whose log read contains a matching address
\* succeeds without a liveness probe, whether the process is alive or has
\* exited; an attempt makes the probe (one, after its log read) exactly when its
\* log read has no match, so there are as many probes as failed attempts.
C36_MatchBeforeProbe ==
    /\ [](sigProbes = fnCalls - (IF rpc = "returned" THEN 1 ELSE 0))
    /\ [][ /\ (logReads' = logReads + 1 =>
                  IF hostnameMatch(logFile) # <<>>
                  THEN /\ sigProbes' = sigProbes
                       /\ rpc' = "returned"
                       /\ retryResult'.hostname = hostnameMatch(logFile)
                  ELSE /\ sigProbes' = sigProbes + 1
                       /\ rpc' = "catch"
                       /\ lastError' = (IF kill(childPid) = "ok" THEN ErrNotYet
                                         ELSE ErrExited))
           /\ (sigProbes' # sigProbes =>
                  logReads' = logReads + 1 /\ hostnameMatch(logFile) = <<>>)
      ]_vars

C36_Witness ==
    /\ rpc = "returned"
    /\ site = "wft"
    /\ ~procAlive
    /\ logReads = 1
    /\ sigProbes = 0
    /\ retryResult.hostname = <<"a", ".", "l", "o", "c", "l", "x", ".", "i", "o">>

(***************************************************************************)
(* Termination of retry(), checked under SpecRetryLive                     *)
(***************************************************************************)

\* retry() has returned a result or thrown the RetryError
RetryOver == rpc \in {"returned", "thrown"}

\* The clock read of the catch block reports a time at least timeout after the start
ClockReportsTimeout == rpc = "catch" /\ now - startTime >= opts.timeout

\* C37: when every call of fn and of the delay function returns, retry()
\* terminates (returns a result or throws the RetryError) if maxRetries is set,
\* and also if the clock, when read, at some point reports a time at least
\* timeout after the start; fn need not ever succeed.
C37_RetryTerminates ==
    /\ (opts.maxRetries # Undefined => <>RetryOver)
    /\ (<>ClockReportsTimeout => <>RetryOver)

C37_Witness ==
    /\ rpc = "thrown"
    /\ opts.maxRetries = Undefined
    /\ retryError.reason = "timeout"
    /\ fnCalls = MaxAttempts
    /\ lastError = "fail 2"

(***************************************************************************)
(* Further properties of one job, checked under Spec                       *)
(***************************************************************************)

\* C38: every chunk the child emits from the spawn to the return of createTunnel
\* is handled by a 'data' listener (the capture handlers, later the debug-only
\* handlers): no chunk is emitted while no listener is attached, however the
\* output events interleave with the detach, the close and the re-attachment.
C38_EveryChunkDelivered ==
    ~dropped

(***************************************************************************)
(* Properties of the liveness probes, checked under SpecProbes             *)
(***************************************************************************)

\* process.kill(pid, 0) raises an error: the text is no process id, the process
\* is gone, or it is alive and the action lacks the permission to signal it
ProbeRaises(pid) == pid = NaN \/ ~procAlive \/ ~procPerm

\* C39: whatever error the signal-0 probe raises, a permission-denied error for a
\* process that is alive included, the caller takes the process to be absent. An
\* attempt of waitForTunnel whose probe raises fails with 'Tunnel process exited
\* unexpectedly', and that is what waitForTunnel reports when it gives up. When
\* the first probe of cleanup raises, cleanup logs 'Tunnel process already
\* stopped' and goes on to the log cleanup: that probe stays its only
\* process.kill call, no signal is sent.
C39_ProbeErrorMeansAbsent ==
    /\ [](wftState = "failed" =>
            failedMsg = (IF absentSeen THEN ErrExited ELSE ErrWaitTimeout))
    /\ []((Len(killCalls) >= 1 /\ ~Delivered(1)) =>
            /\ killCalls = << <<"0", FALSE>> >>
            /\ TerminalLog = <<MsgAlreadyStopped>>
            /\ cpc \in {"unlink", "done"})
    /\ [][ /\ (sigProbes' = sigProbes + 1 =>
                  /\ absentSeen' = (absentSeen \/ ProbeRaises(childPid))
                  /\ lastError' = (IF ProbeRaises(childPid) THEN ErrExited ELSE ErrNotYet))
           /\ ((cpc = "probe1" /\ cpc' # cpc /\ ProbeRaises(parseInt(clPid))) =>
                  /\ cpc' = "unlink"
                  /\ killCalls' = << <<"0", FALSE>> >>
                  /\ clLog' = Append(clLog, MsgAlreadyStopped)
                  /\ procAlive' = procAlive)
           /\ ((cpc = "probe1" /\ cpc' # cpc /\ ~ProbeRaises(parseInt(clPid))) =>
                  cpc' = "sigint")
      ]_vars

C39_Witness ==
    /\ wftState = "failed"
    /\ procAlive
    /\ ~procPerm
    /\ sigProbes = WaitTimeout \div WaitDelay + 1
    /\ failedMsg = ErrExited
    /\ outputs.status = "failed"

(***************************************************************************)
(* Properties of the PR comment, checked under SpecComments                *)
(***************************************************************************)

\* The comments of the pull request that carry the marker
MarkerComments ==
    {k \in 1..Len(prComments) : prComments[k].identifier = commentIdentifier}

\* Every instance has made its updatePRComment call
AllPosted == \A i \in Instances : prPc[i] = "done"

\* The time of the latest post
LastPost == Greatest({prPending[i].entry.timestamp : i \in Instances})

\* A marker comment lists this entry
Listed(entry) ==
    \E k \in MarkerComments :
        \E j \in 1..Len(prComments[k].tunnelsData) : prComments[k].tunnelsData[j] = entry

\* C33: however the list and the update or create calls of the instances
\* interleave, the pull request never has a second marker comment, and once every
\* instance has posted, its one marker comment lists the entry of every instance
\* that posted within the 20 minutes before the latest post.
C33_SingleCommentListsAll ==
    /\ Cardinality(MarkerComments) <= 1
    /\ AllPosted =>
          /\ Cardinality(MarkerComments) = 1
          /\ \A i \in Instances :
                isActive(prPending[i].entry, LastPost) => Listed(prPending[i].entry)
====
